---- MODULE Spec2Model ----
(***************************************************************************)
(* A model of the CIEmu action (ciemu/action).                             *)
(*                                                                         *)
(*  - the pipeline of src/src/ciemu.ts (main, registerEmulation,           *)
(*    buildImage, runCommand) driven by the entry point of                 *)
(*    src/unnamed/part_001, over the daemon client of src/src/lib/docker.ts *)
(*    (Docker.build, Docker.run, ...).  Every awaited call is one action:  *)
(*    the action is the completion of that call together with the          *)
(*    synchronous code that follows it up to the next await.               *)
(*  - the derivation of the cache key (ciemu.ts:116-139).                  *)
(*  - the archive encoder of src/unnamed/part_002 (createTar).             *)
(*                                                                         *)
(* Texts are sequences of one-character strings, so that concatenation,    *)
(* the sanitising of the cache prefix and the hashing of the concatenated  *)
(* input are computed on characters, as the code computes them.            *)
(***************************************************************************)
EXTENDS Integers, Sequences, FiniteSets, TLC

VARIABLES
    proc,         \* per invocation slot: the locals of the running invocation
    lockMarker,   \* <runtimeDirectory>/ciemu.lock exists
    cacheDir,     \* per cache directory: content of image.tar (<<>>: no file)
    cacheStore,   \* the blob cache service: set of [key, content]
    invocations,  \* number of invocations started so far
    tarEntries,   \* archive encoder: the entries given to createTar
    tarNow,       \* archive encoder: the value epoch_utc_now() returns
    tarOut,       \* archive encoder: the buffer createTar returned
    tarPc,        \* archive encoder: "input" | "encoded" | "off"
    auth,         \* daemon client with a token: one createImage or pushImage
    bld,          \* Docker.build on its own: the progress stream and its reading
    unread        \* the progress streams the daemon answers a pull or an import with

vars ==
    <<proc, lockMarker, cacheDir, cacheStore, invocations,
      tarEntries, tarNow, tarOut, tarPc, auth, bld, unread>>

pipelineVars ==
    <<proc, lockMarker, cacheDir, cacheStore, invocations>>

tarVars ==
    <<tarEntries, tarNow, tarOut, tarPc>>

\* the variables of the library code exercised on its own
libVars ==
    <<tarVars, auth, bld, unread>>

(***************************************************************************)
(* Bounds of the model.                                                    *)
(***************************************************************************)
MaxInvocations == 2

MaxEvents == 2

MaxStatus == 2

(***************************************************************************)
(* Texts of the program.                                                   *)
(***************************************************************************)
Undefined ==
    <<>>

CacheVersion ==
    <<"c", "i", "e", "m", "u", "-", "c", "a", "c", "h", "e", "-", "1">>

FromText ==
    <<"F", "R", "O", "M", " ">>

ArgLine ==
    <<"A", "R", "G", " ", "C", "I", "E", "M", "U", "_", "B", "U", "I", "L", "D",
      "_", "S", "C", "R", "I", "P", "T", "=", "f", "a", "l", "s", "e">>

RunText ==
    <<"R", "U", "N", " ">>

RunTail ==
    <<" ", "-", "c", " ", "\"", "$", "C", "I", "E", "M", "U", "_", "B", "U", "I",
      "L", "D", "_", "S", "C", "R", "I", "P", "T", "\"">>

NewLine ==
    <<"\n">>

Dash ==
    <<"-">>

DefaultImage ==
    <<"a", "l", "p", "i", "n", "e">>

DefaultShell ==
    <<"/", "b", "i", "n", "/", "s", "h">>

DefaultPrefixLiteral ==
    <<"c", "i", "e", "m", "u", "-", "c", "a", "c", "h", "e", "-", "{", "i", "m",
      "a", "g", "e", "}">>

QemuImage ==
    <<"m", "u", "l", "t", "i", "a", "r", "c", "h", "/", "q", "e", "m", "u", "-",
      "u", "s", "e", "r", "-", "s", "t", "a", "t", "i", "c">>

QemuCmd ==
    <<"--reset", "--credential", "yes", "--persistent", "yes">>

DockerSock ==
    "/var/run/docker.sock"

CiemuDirectory ==
    "/home/runner/work/_actions/ciemu/action/v0"

Workspace ==
    "/home/runner/work/repo/repo"

(***************************************************************************)
(* Values of the inputs of the action that the model draws from (an empty  *)
(* text is an input that is not supplied).                                 *)
(***************************************************************************)
ImageAlpine317 ==
    <<"a", "l", "p", "i", "n", "e", ":", "3", ".", "1", "7">>

PrefixAppV1 ==
    <<"a", "p", "p", "/", "v", "1">>

BuildEchoHi ==
    <<"e", "c", "h", "o", " ", "h", "i">>

BuildMake ==
    <<"m", "a", "k", "e">>

RunEchoOk ==
    <<"e", "c", "h", "o", " ", "o", "k">>

ImageInputs ==
    <<Undefined, ImageAlpine317>>

CachePrefixInputs ==
    <<Undefined, PrefixAppV1>>

ShellInputs ==
    <<Undefined>>

BuildInputs ==
    <<Undefined, BuildEchoHi, BuildMake>>

RunInputs ==
    <<Undefined, RunEchoOk>>

Clock ==
    {1700000000, 1700000001}

StatusCodes ==
    0..MaxStatus

Range(s) ==
    {s[i] : i \in DOMAIN s}

(***************************************************************************)
(* Entry point: inputs to options (src/unnamed/part_001:18-34).            *)
(***************************************************************************)
AllowedChars ==
    {"-", "_",
     "a", "b", "c", "d", "e", "f", "g", "h", "i", "j", "k", "l", "m",
     "n", "o", "p", "q", "r", "s", "t", "u", "v", "w", "x", "y", "z",
     "A", "B", "C", "D", "E", "F", "G", "H", "I", "J", "K", "L", "M",
     "N", "O", "P", "Q", "R", "S", "T", "U", "V", "W", "X", "Y", "Z",
     "0", "1", "2", "3", "4", "5", "6", "7", "8", "9"}

\* text.replace(/[^-_a-z0-9]+/gi, '-'): every run of characters outside the
\* class becomes one '-'.  inRun: the previous character was outside it.
RECURSIVE replaceRuns(_, _, _)
replaceRuns(text, i, inRun) ==
    IF i > Len(text) THEN <<>>
    ELSE IF text[i] \in AllowedChars
         THEN <<text[i]>> \o replaceRuns(text, i + 1, FALSE)
         ELSE (IF inRun THEN <<>> ELSE Dash) \o replaceRuns(text, i + 1, TRUE)

\* getInput(name) || fallback
orDefault(input, fallback) ==
    IF input = Undefined THEN fallback ELSE input

\* (cachePrefix ?? `ciemu-cache-{image}`).replace(/[^-_a-z0-9]+/gi, '-')
\* The template literal has no '$': the text {image} is not interpolated.
cachePrefixOf(input, image) ==
    replaceRuns(orDefault(input, DefaultPrefixLiteral), 1, FALSE)

\* `${ciemuDirectory}/.ciemu/runtime/cache/${cachePrefix}`
cacheDirectoryOf(cachePrefix) ==
    <<CiemuDirectory, ".ciemu", "runtime", "cache", cachePrefix>>

optionsOf(imageIn, prefixIn, shellIn, buildIn, runIn) ==
    [ ciemuDirectory |-> CiemuDirectory,
      cacheDirectory |-> cacheDirectoryOf(cachePrefixOf(prefixIn, orDefault(imageIn, DefaultImage))),
      cachePrefix    |-> cachePrefixOf(prefixIn, orDefault(imageIn, DefaultImage)),
      workspace      |-> Workspace,
      image          |-> orDefault(imageIn, DefaultImage),
      shell          |-> orDefault(shellIn, DefaultShell),
      build          |-> buildIn,
      binds          |-> Undefined,
      envs           |-> Undefined,
      user           |-> Undefined,
      run            |-> runIn ]

AllOptions ==
    { optionsOf(i, c, s, b, r) :
        i \in Range(ImageInputs), c \in Range(CachePrefixInputs),
        s \in Range(ShellInputs), b \in Range(BuildInputs), r \in Range(RunInputs) }

CacheDirectories ==
    { o.cacheDirectory : o \in AllOptions }

(***************************************************************************)
(* The cache key (src/src/ciemu.ts:116-139).                               *)
(***************************************************************************)
\* [`FROM ${image}`, `ARG CIEMU_BUILD_SCRIPT=false`,
\*  `RUN ${shell} -c "$CIEMU_BUILD_SCRIPT"`].join('\n')
dockerfileOf(image, shell) ==
    FromText \o image \o NewLine \o ArgLine \o NewLine \o RunText \o shell \o RunTail

\* Mutant: the build script is not fed to the hash.
hashInput_noscript(cachePrefix, dockerfile, buildCommand) ==
    CacheVersion \o cachePrefix \o dockerfile

\* The bytes fed to the running hash: the four update() calls in order, with
\* no delimiter between them.
hashInput(cachePrefix, dockerfile, buildCommand) ==
    CacheVersion \o cachePrefix \o dockerfile \o buildCommand

\* The messages the invocations of the model can hash, in a fixed order.
MessageTable ==
    [ pi \in DOMAIN CachePrefixInputs, ii \in DOMAIN ImageInputs,
      si \in DOMAIN ShellInputs, bi \in DOMAIN BuildInputs |->
        hashInput(cachePrefixOf(CachePrefixInputs[pi], orDefault(ImageInputs[ii], DefaultImage)),
                  dockerfileOf(orDefault(ImageInputs[ii], DefaultImage),
                               orDefault(ShellInputs[si], DefaultShell)),
                  BuildInputs[bi]) ]

MessageRankOf(x) ==
    ((x[1] * (Len(ImageInputs) + 1) + x[2]) * (Len(ShellInputs) + 1) + x[3])
        * (Len(BuildInputs) + 1) + x[4]

HexDigits ==
    <<"0", "1", "2", "3", "4", "5", "6", "7", "8", "9", "a", "b", "c", "d", "e", "f">>

RECURSIVE toHex(_)
toHex(n) ==
    IF n < 16 THEN <<HexDigits[n + 1]>>
    ELSE toHex(n \div 16) \o <<HexDigits[(n % 16) + 1]>>

RECURSIVE padStart(_, _, _)
padStart(text, length, fill) ==
    IF Len(text) >= length THEN text ELSE padStart(<<fill>> \o text, length, fill)

\* crypto.createHash('sha1')...digest('hex'): SHA-1 is modelled as a fixed
\* function of the message alone that is injective on the messages of the
\* model and yields 40 hexadecimal digits: the digest of a message is the
\* number of the first table entry equal to it.  A message outside the table
\* gets the digest of zero.
sha1hex(message) ==
    LET hits == { x \in DOMAIN MessageTable : MessageTable[x] = message }
        first == IF hits = {} THEN 0
                 ELSE LET x == CHOOSE y \in hits :
                                 \A z \in hits : MessageRankOf(y) <= MessageRankOf(z)
                      IN  MessageRankOf(x)
    IN  padStart(toHex(first), 40, "0")

contextHashOf(cachePrefix, dockerfile, buildCommand) ==
    sha1hex(hashInput(cachePrefix, dockerfile, buildCommand))

\* const builtImage = `${cachePrefix}-${contextHash}`
builtImageOf(cachePrefix, contextHash) ==
    cachePrefix \o Dash \o contextHash


(***************************************************************************)
(* The state of one invocation.                                            *)
(***************************************************************************)
Procs ==
    {1, 2}

\* statusCode before any container has been waited for
NoCode ==
    0 - 1

NoCreate ==
    [ Image |-> Undefined, Cmd |-> <<>>, WorkingDir |-> "", Env |-> Undefined,
      User |-> Undefined, Binds |-> <<>>, AutoRemove |-> FALSE, Privileged |-> FALSE ]

NoContext ==
    [ name |-> "", data |-> <<>>, mtime |-> 0 ]

NoOptions ==
    optionsOf(Undefined, Undefined, Undefined, Undefined, Undefined)

\* pc:          the await the invocation is suspended at ("idle": not started)
\* stage:       the step of main the invocation is in, or failed in:
\*              "registerEmulation" | "buildImage" | "runCommand" | "returned"
\* lock:        the local `lock` of registerEmulation ("unset" before the stat)
\* cacheResult: the local `cacheResult` of buildImage ("unset" | "hit" | "miss")
\* calls:       the daemon, cache and file operations invoked so far, in order
\* buildError, buildId: the locals `error` and `result.ID` of Docker.build
\* result:      the image of the value main() returned (Undefined before)
\* outputs:     what core.setOutput recorded; failure: what core.setFailed got
\* userInput:   the `user` input of the workflow step (action.yml:34-38), which
\*              the entry point does not read
\* bindInput:   the `bind` input of the workflow step (part_001:21)
\* pullErrorEvent, importErrorEvent: the progress stream of the helper-image
\*              pull, of the snapshot import, carried an `error` event
IdleProc ==
    [ pc |-> "idle", options |-> NoOptions, imageToRun |-> Undefined,
      lock |-> "unset", context |-> NoContext, builtImage |-> Undefined,
      cacheResult |-> "unset", buildError |-> "none", buildId |-> "none",
      stage |-> "none", create |-> NoCreate, calls |-> <<>>,
      result |-> Undefined,
      outputs |-> [ exitCode |-> NoCode, image |-> Undefined ],
      failure |-> "none", warned |-> FALSE, mkdirPending |-> FALSE,
      userInput |-> Undefined, bindInput |-> Undefined,
      pullErrorEvent |-> FALSE, importErrorEvent |-> FALSE ]

Call(op, stage, arg, code) ==
    [ op |-> op, stage |-> stage, arg |-> arg, code |-> code ]

\* r after invoking one more operation
Invoke(r, op, stage, arg) ==
    [ r EXCEPT !.calls = Append(@, Call(op, stage, arg, NoCode)) ]

\* Mutant: the entry point reports a message of its own instead of the error.
throw_generic(r, err) ==
    [ r EXCEPT !.pc = "failed", !.failure = "Action failed" ]

\* An error thrown inside main() rejects its promise; the entry point's
\* .catch(err => core.setFailed(err)) records it (part_001:60-63).
throw(r, err) ==
    [ r EXCEPT !.pc = "failed", !.failure = err ]

(***************************************************************************)
(* Synchronous stretches of src/src/ciemu.ts, as functions of the record.  *)
(***************************************************************************)
\* main, lines 54-56: return { image: imageToRun }.  The entry point awaits
\* the call and does nothing with its value (part_001:47-58).
mainReturn(r) ==
    [ r EXCEPT !.pc = "done", !.stage = "returned", !.result = r.imageToRun ]

\* a list without the elements that repeat an earlier one
RECURSIVE dedup(_)
dedup(list) ==
    IF list = <<>> THEN <<>>
    ELSE LET front == dedup(SubSeq(list, 1, Len(list) - 1))
             last  == list[Len(list)]
         IN  IF \E i \in DOMAIN front : front[i] = last THEN front
             ELSE Append(front, last)

\* Mutant: a user bind given twice is passed to the daemon once.
runCommandStart_dedup(r) ==
    [ r EXCEPT
        !.pc = "run_createContainer",
        !.stage = "runCommand",
        !.create = [ Image      |-> r.imageToRun,
                     Cmd        |-> <<r.options.shell, "-c", r.options.run>>,
                     WorkingDir |-> r.options.workspace,
                     Env        |-> r.options.envs,
                     User       |-> r.options.user,
                     Binds      |-> << <<DockerSock, DockerSock, "ro">>,
                                       <<r.options.ciemuDirectory, r.options.ciemuDirectory, "ro">>,
                                       <<r.options.workspace, r.options.workspace>> >>
                                    \o dedup(r.options.binds),
                     AutoRemove |-> FALSE,
                     Privileged |-> FALSE ] ]

\* runCommand up to its await of docker.run, and Docker.run up to its await
\* of createContainer (ciemu.ts:188-211, docker.ts:167-168).
runCommandStart(r) ==
    [ r EXCEPT
        !.pc = "run_createContainer",
        !.stage = "runCommand",
        !.create = [ Image      |-> r.imageToRun,
                     Cmd        |-> <<r.options.shell, "-c", r.options.run>>,
                     WorkingDir |-> r.options.workspace,
                     Env        |-> r.options.envs,
                     User       |-> r.options.user,
                     Binds      |-> << <<DockerSock, DockerSock, "ro">>,
                                       <<r.options.ciemuDirectory, r.options.ciemuDirectory, "ro">>,
                                       <<r.options.workspace, r.options.workspace>> >>
                                    \o r.options.binds,
                     AutoRemove |-> FALSE,
                     Privileged |-> FALSE ] ]

\* main, lines 46-56
mainAfterBuild(r) ==
    IF r.options.run # Undefined THEN runCommandStart(r) ELSE mainReturn(r)

\* buildImage up to its await of cache.restoreCache (ciemu.ts:106-141).  The
\* build context is createTar([{ name: 'Dockerfile', data: dockerfile }]); it is
\* carried as the arguments of that call and the clock value the encoder read.
buildImageStart(r, now) ==
    LET dockerfile   == dockerfileOf(r.options.image, r.options.shell)
        buildCommand == orDefault(r.options.build, <<>>)
        contextHash  == contextHashOf(r.options.cachePrefix, dockerfile, buildCommand)
    IN  [ r EXCEPT
            !.pc = "build_restoreCache",
            !.stage = "buildImage",
            !.context = [ name |-> "Dockerfile", data |-> dockerfile, mtime |-> now ],
            !.builtImage = builtImageOf(r.options.cachePrefix, contextHash) ]

\* Mutant: buildImage is called whether or not a build script was given.
mainAfterRegister_alwaysbuild(r, now) ==
    buildImageStart(r, now)

\* main, lines 38-56, after registerEmulation returned
mainAfterRegister(r, now) ==
    IF r.options.build # Undefined THEN buildImageStart(r, now) ELSE mainAfterBuild(r)

\* Mutant: the value of buildImage is dropped and the base image is kept.
buildImageReturn_base(r) ==
    mainAfterBuild(r)

\* buildImage returned builtImage: imageToRun = await ... (ciemu.ts:40-43)
buildImageReturn(r) ==
    mainAfterBuild([ r EXCEPT !.imageToRun = r.builtImage ])

\* Mutant: the helper container is not run before the lock is written.
registerRunStart_skiprun(r) ==
    [ r EXCEPT !.pc = "reg_writeFile" ]

\* registerEmulation, lines 85-96, and Docker.run up to createContainer
registerRunStart(r) ==
    [ r EXCEPT
        !.pc = "run_createContainer",
        !.create = [ Image      |-> QemuImage,
                     Cmd        |-> QemuCmd,
                     WorkingDir |-> "",
                     Env        |-> Undefined,
                     User       |-> Undefined,
                     Binds      |-> <<>>,
                     AutoRemove |-> TRUE,
                     Privileged |-> TRUE ] ]


(***************************************************************************)
(* Docker.build's reading of the progress stream (docker.ts:80-99).        *)
(***************************************************************************)
ProgressEvents ==
    { [ error |-> "none", aux |-> "none",     stream |-> "Step 1/3" ],
      [ error |-> "none", aux |-> "sha256:1", stream |-> "none" ],
      [ error |-> "E1",   aux |-> "none",     stream |-> "none" ],
      [ error |-> "E2",   aux |-> "none",     stream |-> "none" ] }

ProgressStreams ==
    UNION { [1..n -> ProgressEvents] : n \in 0..MaxEvents }

\* let result = {}, error (docker.ts:80), with the stdout sink given or not and
\* what has been written to it
BuildStart(stdout) ==
    [ error |-> "none", ID |-> "none", stdout |-> stdout, out |-> <<>> ]

\* the callback given to followProgress, applied to one event (docker.ts:82-93).
\* Its last branch (options.q) needs an event whose stream is falsy and yet a
\* text starting with 'sha256:': no event takes it.
onBuildProgress(st, event) ==
    IF event.error # "none" THEN [ st EXCEPT !.error = event.error ]
    ELSE IF event.aux # "none" THEN [ st EXCEPT !.ID = event.aux ]
    ELSE IF event.stream # "none"
         THEN IF st.stdout THEN [ st EXCEPT !.out = Append(@, event.stream) ] ELSE st
    ELSE st

RECURSIVE buildProgress(_, _, _)
buildProgress(events, i, st) ==
    IF i > Len(events) THEN st
    ELSE buildProgress(events, i + 1, onBuildProgress(st, events[i]))

\* `error` and `result.ID` as the callback leaves them at the end of a
\* progress stream, for every stream the build may answer with
BuildOutcomes ==
    { [ error |-> buildProgress(events, 1, BuildStart(TRUE)).error,
        ID    |-> buildProgress(events, 1, BuildStart(TRUE)).ID ] :
        events \in ProgressStreams }

(***************************************************************************)
(* The actions: one per awaited call.                                      *)
(***************************************************************************)
Me(p) ==
    proc[p]

Become(p, r) ==
    proc' = [proc EXCEPT ![p] = r]

\* Mutant: main goes to its run step without calling registerEmulation.
entered_noregister(options) ==
    mainAfterBuild([ IdleProc EXCEPT
                       !.options = options,
                       !.imageToRun = options.image,
                       !.warned = (options.build = Undefined /\ options.run = Undefined),
                       !.mkdirPending = TRUE ])

\* The invocation as the entry point (part_001:10-58) and main
\* (ciemu.ts:26-36) leave it at the first await of registerEmulation
\* (ciemu.ts:64): the options, let imageToRun = image, the warning when there
\* is nothing to do, and fs.mkdir started and not awaited.
entered(options) ==
    [ IdleProc EXCEPT
        !.pc = "reg_stat",
        !.stage = "registerEmulation",
        !.options = options,
        !.imageToRun = options.image,
        !.warned = (options.build = Undefined /\ options.run = Undefined),
        !.mkdirPending = TRUE ]

\* A new invocation of the action starts (part_001:10).
entry(p) ==
    /\ Me(p).pc \in {"idle", "done", "failed"}
    /\ invocations < MaxInvocations
    /\ \E i \in Range(ImageInputs), c \in Range(CachePrefixInputs),
          s \in Range(ShellInputs), b \in Range(BuildInputs), r \in Range(RunInputs) :
         Become(p, entered(optionsOf(i, c, s, b, r)))
    /\ invocations' = invocations + 1
    /\ UNCHANGED <<lockMarker, cacheDir, cacheStore, libVars>>

\* fs.mkdir(cacheDirectory, { recursive: true }) completes (part_001:35)
mkdirDone(p) ==
    /\ Me(p).mkdirPending
    /\ Become(p, [ Me(p) EXCEPT !.mkdirPending = FALSE ])
    /\ UNCHANGED <<lockMarker, cacheDir, cacheStore, invocations, libVars>>

\* Mutant: the lock is looked at and not acted on.
registerEmulation_stat_nolock(p) ==
    /\ Me(p).pc = "reg_stat"
    /\ Become(p, [ Me(p) EXCEPT !.lock = IF lockMarker THEN "true" ELSE "false",
                                !.pc = "reg_createImage" ])
    /\ UNCHANGED <<lockMarker, cacheDir, cacheStore, invocations, libVars>>

\* Mutant: the lock is looked at only while no other invocation is inside
\* its registration, as under a lock held from the check to the write.
registerEmulation_stat_exclusive(p) ==
    /\ Me(p).pc = "reg_stat"
    /\ \A q \in Procs \ {p} :
         proc[q].pc \notin {"reg_createImage", "reg_followProgress", "reg_writeFile"}
           /\ ~(proc[q].stage = "registerEmulation" /\ proc[q].pc \in
                  {"run_createContainer", "run_attach", "run_start", "run_wait"})
    /\ \E now \in Clock :
         Become(p, IF lockMarker
                   THEN mainAfterRegister([ Me(p) EXCEPT !.lock = "true" ], now)
                   ELSE [ Me(p) EXCEPT !.lock = "false", !.pc = "reg_createImage" ])
    /\ UNCHANGED <<lockMarker, cacheDir, cacheStore, invocations, libVars>>

\* registerEmulation: fs.stat of the lock (ciemu.ts:64-71)
registerEmulation_stat(p) ==
    /\ Me(p).pc = "reg_stat"
    /\ \E now \in Clock :
         Become(p, IF lockMarker
                   THEN mainAfterRegister([ Me(p) EXCEPT !.lock = "true" ], now)
                   ELSE [ Me(p) EXCEPT !.lock = "false", !.pc = "reg_createImage" ])
    /\ UNCHANGED <<lockMarker, cacheDir, cacheStore, invocations, libVars>>

\* registerEmulation: docker.createImage (ciemu.ts:75-80, docker.ts:102-117)
registerEmulation_createImage(p) ==
    /\ Me(p).pc = "reg_createImage"
    /\ \E ok \in BOOLEAN :
         LET r == Invoke(Me(p), "createImage", "registerEmulation", QemuImage)
         IN  Become(p, IF ok THEN [ r EXCEPT !.pc = "reg_followProgress" ]
                       ELSE throw(r, "createImage failed"))
    /\ UNCHANGED <<lockMarker, cacheDir, cacheStore, invocations, libVars>>

\* Docker.followProgress without an onProgress callback (docker.ts:28-37):
\* the events of the stream are parsed and handed to nobody; the promise
\* resolves when the stream ends (ok) and rejects when the stream breaks.
followProgress(r, ok, next, err) ==
    IF ok THEN next ELSE throw(r, err)

\* the progress streams of a pull or an import: no callback reads their
\* events, and streams of at most one event tell apart those with an `error`
\* event and those without
UnreadStreams ==
    { events \in ProgressStreams : Len(events) <= 1 }

\* the stream carries an `error` event
HasErrorEvent(events) ==
    \E i \in DOMAIN events : events[i].error # "none"

\* registerEmulation: docker.followProgress(pullResult) (ciemu.ts:83)
registerEmulation_followProgress(p) ==
    /\ Me(p).pc = "reg_followProgress"
    /\ \E ok \in BOOLEAN, events \in unread :
         LET r == [ Me(p) EXCEPT !.pullErrorEvent = HasErrorEvent(events) ]
         IN  Become(p, followProgress(r, ok, registerRunStart(r), "pull stream failed"))
    /\ UNCHANGED <<lockMarker, cacheDir, cacheStore, invocations, libVars>>

\* Mutant: Docker.run starts the container before attaching to it.
DockerRunNext_startfirst(op) ==
    CASE op = "createContainer" -> "run_start"
      [] op = "start"           -> "run_attach"
      [] op = "attach"          -> "run_wait"

\* Docker.run: the await that follows one that resolved (docker.ts:168-184)
DockerRunNext(op) ==
    CASE op = "createContainer" -> "run_attach"
      [] op = "attach"          -> "run_start"
      [] op = "start"           -> "run_wait"

\* Docker.run: createContainer (docker.ts:168, 39-56)
Docker_run_createContainer(p) ==
    /\ Me(p).pc = "run_createContainer"
    /\ \E ok \in BOOLEAN :
         LET r == Invoke(Me(p), "createContainer", Me(p).stage, Me(p).create.Image)
         IN  Become(p, IF ok THEN [ r EXCEPT !.pc = DockerRunNext("createContainer") ]
                       ELSE throw(r, "createContainer failed"))
    /\ UNCHANGED <<lockMarker, cacheDir, cacheStore, invocations, libVars>>

\* Docker.run: container.attach, then demuxStream (docker.ts:170-180)
Docker_run_attach(p) ==
    /\ Me(p).pc = "run_attach"
    /\ \E ok \in BOOLEAN :
         LET r == Invoke(Me(p), "attach", Me(p).stage, Me(p).create.Image)
         IN  Become(p, IF ok THEN [ r EXCEPT !.pc = DockerRunNext("attach") ]
                       ELSE throw(r, "attach failed"))
    /\ UNCHANGED <<lockMarker, cacheDir, cacheStore, invocations, libVars>>

\* Docker.run: container.start (docker.ts:182)
Docker_run_start(p) ==
    /\ Me(p).pc = "run_start"
    /\ \E ok \in BOOLEAN :
         LET r == Invoke(Me(p), "start", Me(p).stage, Me(p).create.Image)
         IN  Become(p, IF ok THEN [ r EXCEPT !.pc = DockerRunNext("start") ]
                       ELSE throw(r, "start failed"))
    /\ UNCHANGED <<lockMarker, cacheDir, cacheStore, invocations, libVars>>

\* Mutant: the status of the wait is not passed on.
DockerRunResult_zero(StatusCode) ==
    [ statusCode |-> 0 ]

\* Docker.run: return { container, statusCode: result.StatusCode } (docker.ts:185-188)
DockerRunResult(StatusCode) ==
    [ statusCode |-> StatusCode ]

\* Mutant: a non-zero exit status of the run container fails the invocation.
runCommandFinish_failnonzero(r, result) ==
    IF result.statusCode # 0
    THEN throw([ r EXCEPT !.outputs.exitCode = result.statusCode ], "exit status")
    ELSE mainReturn([ r EXCEPT !.outputs.exitCode = result.statusCode ])

\* runCommand after docker.run: core.setOutput('exit-code', result.statusCode)
\* (ciemu.ts:213-216), then main returns.
runCommandFinish(r, result) ==
    mainReturn([ r EXCEPT !.outputs.exitCode = result.statusCode ])

\* Mutant: a helper container that exits non-zero fails the registration.
registerEmulationAfterRun_checkstatus(r, result) ==
    IF result.statusCode # 0 THEN throw(r, "helper failed")
    ELSE [ r EXCEPT !.pc = "reg_writeFile" ]

\* registerEmulation after docker.run resolved (ciemu.ts:87-99): the value of
\* the call is not looked at, and the lock is written next.
registerEmulationAfterRun(r, result) ==
    [ r EXCEPT !.pc = "reg_writeFile" ]

\* Docker.run: container.wait (docker.ts:184-188), back in the caller:
\* registerEmulation goes on to write the lock (ciemu.ts:99), runCommand
\* records the exit code.
Docker_run_wait(p) ==
    /\ Me(p).pc = "run_wait"
    /\ \E ok \in BOOLEAN, StatusCode \in StatusCodes :
         LET r == [ Me(p) EXCEPT !.calls =
                      Append(@, Call("wait", Me(p).stage, Me(p).create.Image,
                                     IF ok THEN StatusCode ELSE NoCode)) ]
         IN  Become(p, IF ~ok THEN throw(r, "wait failed")
                       ELSE IF r.stage = "registerEmulation"
                            THEN registerEmulationAfterRun(r, DockerRunResult(StatusCode))
                            ELSE runCommandFinish(r, DockerRunResult(StatusCode)))
    /\ UNCHANGED <<lockMarker, cacheDir, cacheStore, invocations, libVars>>

\* registerEmulation: fs.writeFile of the lock (ciemu.ts:99), then main goes on
registerEmulation_writeFile(p) ==
    /\ Me(p).pc = "reg_writeFile"
    /\ \E ok \in BOOLEAN, now \in Clock :
         LET r == Invoke(Me(p), "writeLock", "registerEmulation", Undefined)
         IN  /\ Become(p, IF ok THEN mainAfterRegister(r, now)
                          ELSE throw(r, "writeFile lock failed"))
             /\ lockMarker' = (lockMarker \/ ok)
    /\ UNCHANGED <<cacheDir, cacheStore, invocations, libVars>>


\* Mutant: the cache write is skipped after the build.
buildImageAfterBuild_nocache(r) ==
    buildImageReturn(r)

\* Mutant: the cache is saved right after the build, before the image is
\* tagged, exported and written to the cache directory.
buildImageAfterBuild_savefirst(r) ==
    IF r.cacheResult # "hit" THEN [ r EXCEPT !.pc = "build_saveCache" ]
    ELSE buildImageReturn(r)

\* buildImage after docker.build returned: `if (!cacheResult)` starts the
\* cache write with buildResult.tag (ciemu.ts:172-175)
buildImageAfterBuild(r) ==
    IF r.cacheResult # "hit" THEN [ r EXCEPT !.pc = "build_tag" ]
    ELSE buildImageReturn(r)

\* Mutant: the hit branch does not return and falls through to the build.
buildImageAfterRestore_fallthrough(r, cacheResult) ==
    IF cacheResult
    THEN [ r EXCEPT !.cacheResult = "hit", !.pc = "build_dial" ]
    ELSE [ r EXCEPT !.cacheResult = "miss", !.pc = "build_dial" ]

\* buildImage after cache.restoreCache (ciemu.ts:141-157): a hit goes on to
\* open the snapshot, a miss to docker.build.
buildImageAfterRestore(r, cacheResult) ==
    IF cacheResult
    THEN [ r EXCEPT !.cacheResult = "hit", !.pc = "build_open" ]
    ELSE [ r EXCEPT !.cacheResult = "miss", !.pc = "build_dial" ]

\* buildImage: cache.restoreCache([cacheDirectory], builtImage) (ciemu.ts:141).
\* A hit restores the saved snapshot into the cache directory.
buildImage_restoreCache(p) ==
    /\ Me(p).pc = "build_restoreCache"
    /\ LET r == Invoke(Me(p), "restoreCache", "buildImage", Me(p).builtImage)
       IN  \/ \E c \in cacheStore :
                /\ c.key = r.builtImage
                /\ cacheDir' = [cacheDir EXCEPT ![r.options.cacheDirectory] = c.content]
                /\ Become(p, buildImageAfterRestore(r, TRUE))
           \/ /\ Become(p, buildImageAfterRestore(r, FALSE))
              /\ UNCHANGED cacheDir
           \/ /\ Become(p, throw(r, "restoreCache failed"))
              /\ UNCHANGED cacheDir
    /\ UNCHANGED <<lockMarker, cacheStore, invocations, libVars>>

\* Mutant: when the snapshot cannot be opened, buildImage falls back to
\* building the image.
buildImage_open_fallback(p) ==
    /\ Me(p).pc = "build_open"
    /\ \E ok \in BOOLEAN :
         LET r == Invoke(Me(p), "open", "buildImage", Me(p).builtImage)
         IN  Become(p, IF ok /\ cacheDir[r.options.cacheDirectory] # Undefined
                       THEN [ r EXCEPT !.pc = "build_importImages" ]
                       ELSE [ r EXCEPT !.pc = "build_dial" ])
    /\ UNCHANGED <<lockMarker, cacheDir, cacheStore, invocations, libVars>>

\* buildImage: fs.open of the snapshot (ciemu.ts:144)
buildImage_open(p) ==
    /\ Me(p).pc = "build_open"
    /\ \E ok \in BOOLEAN :
         LET r == Invoke(Me(p), "open", "buildImage", Me(p).builtImage)
         IN  Become(p, IF ok /\ cacheDir[r.options.cacheDirectory] # Undefined
                       THEN [ r EXCEPT !.pc = "build_importImages" ]
                       ELSE throw(r, "open image.tar failed"))
    /\ UNCHANGED <<lockMarker, cacheDir, cacheStore, invocations, libVars>>

\* buildImage: docker.importImages (ciemu.ts:145, docker.ts:133-147)
buildImage_importImages(p) ==
    /\ Me(p).pc = "build_importImages"
    /\ \E ok \in BOOLEAN :
         LET r == Invoke(Me(p), "importImages", "buildImage",
                         cacheDir[Me(p).options.cacheDirectory])
         IN  Become(p, IF ok THEN [ r EXCEPT !.pc = "build_followImport" ]
                       ELSE throw(r, "importImages failed"))
    /\ UNCHANGED <<lockMarker, cacheDir, cacheStore, invocations, libVars>>

\* buildImage: docker.followProgress(importResult) (ciemu.ts:146)
buildImage_followImport(p) ==
    /\ Me(p).pc = "build_followImport"
    /\ \E ok \in BOOLEAN, events \in unread :
         LET r == [ Me(p) EXCEPT !.importErrorEvent = HasErrorEvent(events) ]
         IN  Become(p, followProgress(r, ok, [ r EXCEPT !.pc = "build_close" ],
                                      "import stream failed"))
    /\ UNCHANGED <<lockMarker, cacheDir, cacheStore, invocations, libVars>>

\* buildImage: file.close(), return builtImage (ciemu.ts:147-149)
buildImage_close(p) ==
    /\ Me(p).pc = "build_close"
    /\ \E ok \in BOOLEAN :
         Become(p, IF ok THEN buildImageReturn(Me(p))
                   ELSE throw(Me(p), "close failed"))
    /\ UNCHANGED <<lockMarker, cacheDir, cacheStore, invocations, libVars>>

\* Docker.build: the dial of /build (docker.ts:61-74)
Docker_build_dial(p) ==
    /\ Me(p).pc = "build_dial"
    /\ \E ok \in BOOLEAN :
         LET r == Invoke(Me(p), "build", "buildImage", Me(p).context.data)
         IN  Become(p, IF ok THEN [ r EXCEPT !.pc = "build_followProgress" ]
                       ELSE throw(r, "build failed"))
    /\ UNCHANGED <<lockMarker, cacheDir, cacheStore, invocations, libVars>>

\* Mutant: the recorded error event is not thrown.
DockerBuildFinish_swallow(r) ==
    buildImageAfterBuild(r)

\* Docker.build after followProgress resolved (docker.ts:95-99): throw the
\* recorded error, or return the image.
DockerBuildFinish(r) ==
    IF r.buildError # "none" THEN throw(r, r.buildError)
    ELSE buildImageAfterBuild(r)

\* Docker.build: followProgress over the build's progress stream
\* (docker.ts:80-99).  ok = FALSE: the stream itself fails and followProgress
\* rejects.
Docker_build_followProgress(p) ==
    /\ Me(p).pc = "build_followProgress"
    /\ \E ok \in BOOLEAN, st \in BuildOutcomes :
         LET r == [ Me(p) EXCEPT !.buildError = st.error, !.buildId = st.ID ]
         IN  Become(p, IF ok THEN DockerBuildFinish(r)
                       ELSE throw(r, "build stream failed"))
    /\ UNCHANGED <<lockMarker, cacheDir, cacheStore, invocations, libVars>>

\* buildImage: buildResult.tag({ repo: builtImage }) (ciemu.ts:175,
\* docker.ts:271-287).  Without an aux event the image id is undefined and
\* the daemon knows no such image.
buildImage_tag(p) ==
    /\ Me(p).pc = "build_tag"
    /\ \E ok \in BOOLEAN :
         LET r == Invoke(Me(p), "tag", "buildImage", Me(p).builtImage)
         IN  Become(p, IF ok /\ r.buildId # "none"
                       THEN [ r EXCEPT !.pc = "build_exportImage" ]
                       ELSE throw(r, "tag failed"))
    /\ UNCHANGED <<lockMarker, cacheDir, cacheStore, invocations, libVars>>

\* buildImage: docker.exportImage({ name: builtImage }) (ciemu.ts:177)
buildImage_exportImage(p) ==
    /\ Me(p).pc = "build_exportImage"
    /\ \E ok \in BOOLEAN :
         LET r == Invoke(Me(p), "exportImage", "buildImage", Me(p).builtImage)
         IN  Become(p, IF ok THEN [ r EXCEPT !.pc = "build_writeFile" ]
                       ELSE throw(r, "exportImage failed"))
    /\ UNCHANGED <<lockMarker, cacheDir, cacheStore, invocations, libVars>>

\* buildImage: fs.writeFile(`${cacheDirectory}/image.tar`, exportResult)
\* (ciemu.ts:178)
buildImage_writeFile(p) ==
    /\ Me(p).pc = "build_writeFile"
    /\ \E ok \in BOOLEAN :
         LET r == Invoke(Me(p), "writeFile", "buildImage", Me(p).builtImage)
         IN  /\ Become(p, IF ok THEN [ r EXCEPT !.pc = "build_saveCache" ]
                          ELSE throw(r, "writeFile image.tar failed"))
             /\ cacheDir' = IF ok
                            THEN [cacheDir EXCEPT ![r.options.cacheDirectory] = r.builtImage]
                            ELSE cacheDir
    /\ UNCHANGED <<lockMarker, cacheStore, invocations, libVars>>

\* Mutant: an error of saveCache is swallowed and the built image is returned.
buildImage_saveCache_besteffort(p) ==
    /\ Me(p).pc = "build_saveCache"
    /\ \E ok \in BOOLEAN :
         LET r == Invoke(Me(p), "saveCache", "buildImage", Me(p).builtImage)
         IN  /\ Become(p, IF ok THEN buildImageReturn(r)
                          ELSE buildImageReturn([ r EXCEPT !.failure = "saveCache failed" ]))
             /\ cacheStore' = IF ok
                              THEN cacheStore \cup
                                     { [ key |-> r.builtImage,
                                         content |-> cacheDir[r.options.cacheDirectory] ] }
                              ELSE cacheStore
    /\ UNCHANGED <<lockMarker, cacheDir, invocations, libVars>>

\* buildImage: cache.saveCache([cacheDirectory], builtImage), return builtImage
\* (ciemu.ts:179-182)
buildImage_saveCache(p) ==
    /\ Me(p).pc = "build_saveCache"
    /\ \E ok \in BOOLEAN :
         LET r == Invoke(Me(p), "saveCache", "buildImage", Me(p).builtImage)
         IN  /\ Become(p, IF ok THEN buildImageReturn(r)
                          ELSE throw(r, "saveCache failed"))
             /\ cacheStore' = IF ok
                              THEN cacheStore \cup
                                     { [ key |-> r.builtImage,
                                         content |-> cacheDir[r.options.cacheDirectory] ] }
                              ELSE cacheStore
    /\ UNCHANGED <<lockMarker, cacheDir, invocations, libVars>>

(***************************************************************************)
(* The pipeline, one invocation at a time.                                 *)
(***************************************************************************)
InitPipeline ==
    /\ proc = [p \in Procs |-> IdleProc]
    /\ lockMarker = FALSE
    /\ cacheDir = [d \in CacheDirectories |-> Undefined]
    /\ cacheStore = {}
    /\ invocations = 0

InitTarOff ==
    /\ tarEntries = <<>>
    /\ tarNow = 0
    /\ tarOut = <<>>
    /\ tarPc = "off"

\* no request is made through a client with a token
AuthOff ==
    [ pc |-> "off" ]

InitAuthOff ==
    auth = AuthOff

\* the daemon's pull and import streams carry no `error` event
InitUnreadQuiet ==
    unread = { events \in UnreadStreams : ~HasErrorEvent(events) }

\* Docker.build is not exercised on its own
InitBuildOff ==
    bld = [ pc |-> "off" ]

Init ==
    InitPipeline /\ InitTarOff /\ InitAuthOff /\ InitBuildOff /\ InitUnreadQuiet

Step(p) ==
    \/ entry(p)
    \/ mkdirDone(p)
    \/ registerEmulation_stat(p)
    \/ registerEmulation_createImage(p)
    \/ registerEmulation_followProgress(p)
    \/ Docker_run_createContainer(p)
    \/ Docker_run_attach(p)
    \/ Docker_run_start(p)
    \/ Docker_run_wait(p)
    \/ registerEmulation_writeFile(p)
    \/ buildImage_restoreCache(p)
    \/ buildImage_open(p)
    \/ buildImage_importImages(p)
    \/ buildImage_followImport(p)
    \/ buildImage_close(p)
    \/ Docker_build_dial(p)
    \/ Docker_build_followProgress(p)
    \/ buildImage_tag(p)
    \/ buildImage_exportImage(p)
    \/ buildImage_writeFile(p)
    \/ buildImage_saveCache(p)

Next ==
    Step(1)

Spec ==
    Init /\ [][Next]_vars


(***************************************************************************)
(* Claims about the pipeline.                                              *)
(***************************************************************************)
\* the operations invoked in one step of main, in order
OpsOf(r, stage) ==
    LET sel == SelectSeq(r.calls, LAMBDA c : c.stage = stage)
    IN  [ i \in 1..Len(sel) |-> sel[i].op ]

CallsOp(r, stage, op) ==
    SelectSeq(r.calls, LAMBDA c : c.stage = stage /\ c.op = op)

IsPrefix(a, b) ==
    Len(a) <= Len(b) /\ a = SubSeq(b, 1, Len(a))

\* buildImage was called and has returned to main
BuildReturned(r) ==
    r.options.build # Undefined /\ r.stage \in {"runCommand", "returned"}

HitOps ==
    <<"restoreCache", "open", "importImages">>

MissOps ==
    <<"restoreCache", "build", "tag", "exportImage", "writeFile", "saveCache">>

ContainerOps ==
    {"createContainer", "attach", "start", "wait"}

CacheWriteOps ==
    {"tag", "exportImage", "writeFile", "saveCache"}

\* C1: in an invocation with a build script whose restoreCache reported a hit,
\* build, tag, exportImage and saveCache are never invoked and importImages at
\* most once; when buildImage has returned, exactly one importImages was made
\* (after the restore and the opening of the snapshot) and the pipeline goes on
\* with the cached image: it is imageToRun and the image of the run container.
C1_CacheHitNeverBuilds ==
    \A p \in Procs :
        LET r == proc[p]
        IN  (r.options.build # Undefined /\ r.cacheResult = "hit") =>
              /\ \A c \in Range(r.calls) :
                     c.op \notin {"build", "tag", "exportImage", "saveCache"}
              /\ IsPrefix(OpsOf(r, "buildImage"), HitOps)
              /\ BuildReturned(r) =>
                     /\ OpsOf(r, "buildImage") = HitOps
                     /\ r.imageToRun = r.builtImage
                     /\ \A c \in Range(CallsOp(r, "runCommand", "createContainer")) :
                            c.arg = r.builtImage

C1_Witness ==
    \E p \in Procs :
        /\ proc[p].cacheResult = "hit"
        /\ proc[p].pc = "done"
        /\ Len(CallsOp(proc[p], "buildImage", "importImages")) = 1
        /\ Len(CallsOp(proc[p], "runCommand", "createContainer")) = 1

\* C2: in an invocation with a build script whose restoreCache reported a miss,
\* build is invoked at most once, as the next operation after the restore, and
\* nothing is imported; when buildImage has returned, build was invoked exactly
\* once and was followed by exactly one cache write: one tag, one exportImage
\* of the key-tagged image, one write of the snapshot and one saveCache under
\* the key, in that order, and the record is in the cache.
C2_CacheMissBuildsOnce ==
    \A p \in Procs :
        LET r == proc[p]
        IN  (r.options.build # Undefined /\ r.cacheResult = "miss") =>
              /\ IsPrefix(OpsOf(r, "buildImage"), MissOps)
              /\ r.pc # "build_dial" => Len(CallsOp(r, "buildImage", "build")) = 1
              /\ BuildReturned(r) =>
                     /\ OpsOf(r, "buildImage") = MissOps
                     /\ \A c \in Range(CallsOp(r, "buildImage", "exportImage")) :
                            c.arg = r.builtImage
                     /\ \A c \in Range(CallsOp(r, "buildImage", "saveCache")) :
                            c.arg = r.builtImage
                     /\ [ key |-> r.builtImage, content |-> r.builtImage ] \in cacheStore

C2_Witness ==
    \E p \in Procs :
        /\ proc[p].cacheResult = "miss"
        /\ proc[p].pc = "done"
        /\ Len(CallsOp(proc[p], "buildImage", "build")) = 1
        /\ Len(CallsOp(proc[p], "buildImage", "saveCache")) = 1

\* text is prefix, '-', and 40 hexadecimal digits
IsKeyOf(text, prefix) ==
    /\ Len(text) = Len(prefix) + 41
    /\ SubSeq(text, 1, Len(prefix)) = prefix
    /\ text[Len(prefix) + 1] = "-"
    /\ \A i \in (Len(prefix) + 2)..(Len(prefix) + 41) : text[i] \in Range(HexDigits)

\* C3: whenever buildImage has returned, on the miss path and on the hit path
\* alike, the image it returned is the cache key <cachePrefix>-<40 hex digits>
\* derived from the invocation's inputs; it is the key under which the image is
\* in the cache (saved by this invocation, or by the earlier one that built
\* it), the image main returns and the image of the run-step container.
C3_ImageIsCacheKey ==
    \A p \in Procs :
        LET r == proc[p]
        IN  BuildReturned(r) =>
              /\ r.cacheResult \in {"hit", "miss"}
              /\ IsKeyOf(r.imageToRun, r.options.cachePrefix)
              /\ r.imageToRun =
                     builtImageOf(r.options.cachePrefix,
                                  contextHashOf(r.options.cachePrefix,
                                                dockerfileOf(r.options.image, r.options.shell),
                                                r.options.build))
              /\ \E c \in cacheStore : c.key = r.imageToRun
              /\ r.pc = "done" => r.result = r.imageToRun
              /\ \A c \in Range(CallsOp(r, "runCommand", "createContainer")) :
                     c.arg = r.imageToRun

C3_Witness ==
    \E p \in Procs :
        /\ invocations = 2
        /\ proc[p].cacheResult = "hit"
        /\ proc[p].pc = "done"
        /\ IsKeyOf(proc[p].result, proc[p].options.cachePrefix)
        /\ Len(CallsOp(proc[p], "runCommand", "createContainer")) = 1

\* C4 as stated: once the build's progress stream has yielded an error event,
\* the invocation has created, attached, started or waited for no container
\* at all, and has made no cache write.
C4_NoContainerAtAll ==
    \A p \in Procs :
        proc[p].buildError # "none" =>
            \A c \in Range(proc[p].calls) : c.op \notin ContainerOps \cup CacheWriteOps

\* C4, amended: once the build's progress stream has yielded an error event,
\* the invocation has failed in the build step: no container of the run step
\* is created, attached, started or waited for, also when a run command was
\* supplied, and no cache write occurs.  (The helper container of the
\* emulation registration may have run earlier in the invocation.)
C4_BuildErrorAborts ==
    \A p \in Procs :
        LET r == proc[p]
        IN  r.buildError # "none" =>
              /\ r.pc = "failed"
              /\ r.stage = "buildImage"
              /\ r.failure # "none"
              /\ OpsOf(r, "runCommand") = <<>>
              /\ \A c \in Range(r.calls) : c.op \notin CacheWriteOps

C4_Witness ==
    \E p \in Procs :
        /\ proc[p].buildError # "none"
        /\ proc[p].options.run # Undefined
        /\ proc[p].pc = "failed"
        /\ Len(CallsOp(proc[p], "registerEmulation", "createContainer")) = 1

RegisterPcs ==
    {"reg_createImage", "reg_followProgress", "reg_writeFile"}

\* C5: the lock marker, once written, stays; an invocation that finds it
\* performs no daemon call in registerEmulation; and every registerEmulation
\* called while the marker exists finds it and goes straight on to the rest of
\* main, invoking nothing.
C5_RegistrationIdempotent ==
    /\ [](\A p \in Procs :
              proc[p].lock = "true" => OpsOf(proc[p], "registerEmulation") = <<>>)
    /\ [][lockMarker => lockMarker']_vars
    /\ [][\A p \in Procs :
              (lockMarker /\ proc[p].pc = "reg_stat" /\ proc'[p].pc # "reg_stat") =>
                  /\ proc'[p].lock = "true"
                  /\ proc'[p].calls = proc[p].calls
                  /\ proc'[p].pc \notin RegisterPcs
                  /\ proc'[p].stage # "registerEmulation"]_vars

C5_Witness ==
    \E p \in Procs :
        /\ lockMarker
        /\ invocations = 2
        /\ proc[p].lock = "true"
        /\ proc[p].pc = "done"
        /\ OpsOf(proc[p], "registerEmulation") = <<>>

\* C6: when a run command was supplied and the run step has completed, the
\* exit-code output is the StatusCode the daemon's wait returned for the run
\* container, whatever it is (0 is reported as 0), and the invocation is not
\* marked failed.
C6_ExitCodeIsWaitStatus ==
    \A p \in Procs :
        LET r == proc[p]
            w == CallsOp(r, "runCommand", "wait")
        IN  (r.options.run # Undefined /\ r.stage = "returned") =>
              /\ Len(w) = 1
              /\ w[1].code \in StatusCodes
              /\ r.outputs.exitCode = w[1].code
              /\ r.failure = "none"
              /\ r.pc = "done"

C6_Witness ==
    \E p \in Procs :
        /\ proc[p].options.run # Undefined
        /\ proc[p].pc = "done"
        /\ proc[p].outputs.exitCode = 0
        /\ CallsOp(proc[p], "runCommand", "wait")[1].code = 0

\* C7: whenever the pipeline completes having built or restored an image, that
\* image is the `image` output of the action, also without a run command.
C7_ImageOutputSet ==
    \A p \in Procs :
        (proc[p].pc = "done" /\ proc[p].options.build # Undefined) =>
            proc[p].outputs.image = proc[p].result


(***************************************************************************)
(* The derivation of the cache key, in two invocations side by side: both  *)
(* have entered with a build script on a runner whose emulation is         *)
(* registered, with the cache empty or holding a record, and each goes     *)
(* through registerEmulation's stat into buildImage, which derives its key *)
(* (ciemu.ts:106-139) at its own time.                                     *)
(***************************************************************************)
BuildOptions ==
    { o \in AllOptions : o.build # Undefined }

SavedRecord ==
    LET o == optionsOf(Undefined, PrefixAppV1, Undefined, BuildEchoHi, Undefined)
        k == builtImageOf(o.cachePrefix,
                          contextHashOf(o.cachePrefix, dockerfileOf(o.image, o.shell), o.build))
    IN  [ key |-> k, content |-> k ]

InitKey ==
    /\ proc \in [Procs -> { entered(o) : o \in BuildOptions }]
    /\ lockMarker = TRUE
    /\ cacheDir = [d \in CacheDirectories |-> Undefined]
    /\ cacheStore \in { {}, {SavedRecord} }
    /\ invocations = Cardinality(Procs)
    /\ InitTarOff
    /\ InitAuthOff
    /\ InitBuildOff
    /\ InitUnreadQuiet

NextKey ==
    \E p \in Procs : registerEmulation_stat(p)

SpecKey ==
    InitKey /\ [][NextKey]_vars

\* the inputs of the key: cache namespace, build file text, build script text
KeyInputs(r) ==
    <<r.options.cachePrefix, r.context.data, r.options.build>>

KeyDerived(r) ==
    r.pc = "build_restoreCache"

\* C8: two derivations with identical (namespace, build file text, script
\* text) give the identical key, whatever the time each ran at (the mtime of
\* its archive) and whatever the cache holds; two derivations that differ in
\* exactly one of the three inputs give different keys.
C8_KeyPureAndSensitive ==
    \A p, q \in Procs :
        (KeyDerived(proc[p]) /\ KeyDerived(proc[q])) =>
            LET a == KeyInputs(proc[p])
                b == KeyInputs(proc[q])
            IN  /\ a = b => proc[p].builtImage = proc[q].builtImage
                /\ Cardinality({ i \in 1..3 : a[i] # b[i] }) = 1 =>
                       proc[p].builtImage # proc[q].builtImage

C8_Witness ==
    /\ KeyDerived(proc[1]) /\ KeyDerived(proc[2])
    /\ KeyInputs(proc[1]) = KeyInputs(proc[2])
    /\ proc[1].context.mtime # proc[2].context.mtime
    /\ cacheStore # {}
    /\ proc[1].builtImage = proc[2].builtImage


(***************************************************************************)
(* Constants of the archive encoder.                                       *)
(***************************************************************************)
BLOCK_SIZE == 512

CHKSUM_BLANKS == 256

CODE_ZERO == 48

\* '0000664'
MODE_CHARS ==
    <<48, 48, 48, 48, 54, 54, 52>>

\* 'ustar'
USTAR_CHARS ==
    <<117, 115, 116, 97, 114>>

\* '00'
VERSION_CHARS ==
    <<48, 48>>

\* 'Dockerfile'
DOCKERFILE_CHARS ==
    <<68, 111, 99, 107, 101, 114, 102, 105, 108, 101>>

\* '777777777777', a text of the width of the size field
SIZE_TEXT ==
    <<55, 55, 55, 55, 55, 55, 55, 55, 55, 55, 55, 55>>

\* 'FROM alpine\n'
FROM_ALPINE_BYTES ==
    <<70, 82, 79, 77, 32, 97, 108, 112, 105, 110, 101, 10>>

(***************************************************************************)
(* The archive encoder (src/unnamed/part_002).  A buffer is a sequence of  *)
(* bytes: byte i of the code (from 0) is element i + 1.  A header value is  *)
(* null, a string (its character codes) or a number.                       *)
(***************************************************************************)
Null ==
    [ kind |-> "null", v |-> <<>>, n |-> 0 ]

Str(chars) ==
    [ kind |-> "string", v |-> chars, n |-> 0 ]

Num(n) ==
    [ kind |-> "number", v |-> <<>>, n |-> n ]

\* a default that is a function, called by initTar
Fun(name) ==
    [ kind |-> "function", v |-> name, n |-> 0 ]

\* field: [ size, default_value ], in the order of the object's keys
star_header ==
    << [ name |-> "name",     size |-> 100, default |-> Null ],
       [ name |-> "mode",     size |-> 8,   default |-> Str(MODE_CHARS) ],
       [ name |-> "uid",      size |-> 8,   default |-> Num(0) ],
       [ name |-> "gid",      size |-> 8,   default |-> Num(0) ],
       [ name |-> "size",     size |-> 12,  default |-> Null ],
       [ name |-> "mtime",    size |-> 12,  default |-> Fun("epoch_utc_now") ],
       [ name |-> "chksum",   size |-> 8,   default |-> Null ],
       [ name |-> "typeflag", size |-> 1,   default |-> Num(0) ],
       [ name |-> "linkname", size |-> 100, default |-> Null ],
       [ name |-> "magic",    size |-> 6,   default |-> Str(USTAR_CHARS) ],
       [ name |-> "version",  size |-> 2,   default |-> Str(VERSION_CHARS) ],
       [ name |-> "uname",    size |-> 32,  default |-> Null ],
       [ name |-> "gname",    size |-> 32,  default |-> Null ],
       [ name |-> "devmajor", size |-> 8,   default |-> Null ],
       [ name |-> "devminor", size |-> 8,   default |-> Null ],
       [ name |-> "prefix",   size |-> 131, default |-> Null ],
       [ name |-> "atime",    size |-> 12,  default |-> Null ],
       [ name |-> "ctime",    size |-> 12,  default |-> Null ],
       [ name |-> "padding",  size |-> 12,  default |-> Null ] >>

\* state.o after the first k fields
RECURSIVE offsetAfter(_)
offsetAfter(k) ==
    IF k = 0 THEN 0 ELSE offsetAfter(k - 1) + star_header[k].size

\* initTar: the header table { name, offset, size, default } by field number
\* (a function default is called), the field list and the block size; now is
\* what epoch_utc_now() returns.
initTar(now) ==
    [ headers   |-> [ k \in DOMAIN star_header |->
                        [ name    |-> star_header[k].name,
                          offset  |-> offsetAfter(k - 1),
                          size    |-> star_header[k].size,
                          default |-> IF star_header[k].default.kind = "function"
                                      THEN Num(now)
                                      ELSE star_header[k].default ] ],
      fields    |-> [ k \in DOMAIN star_header |-> star_header[k].name ],
      blockSize |-> BLOCK_SIZE ]

\* headers[name]
headerOf(tar, name) ==
    tar.headers[CHOOSE k \in DOMAIN tar.fields : tar.fields[k] = name]

\* num.toString(8), as character codes
RECURSIVE toOctal(_)
toOctal(num) ==
    IF num < 8 THEN <<CODE_ZERO + num>>
    ELSE toOctal(num \div 8) \o <<CODE_ZERO + (num % 8)>>

\* num.toString(8).padStart(length, '0')
num2oct(num, length) ==
    padStart(toOctal(num), length, CODE_ZERO)

\* seq[lo] + ... + seq[hi], summed by halves to keep the evaluation shallow
RECURSIVE sumRange(_, _, _)
sumRange(seq, lo, hi) ==
    IF lo > hi THEN 0
    ELSE IF lo = hi THEN seq[lo]
    ELSE LET mid == (lo + hi) \div 2
         IN  sumRange(seq, lo, mid) + sumRange(seq, mid + 1, hi)

\* the sum of the elements of a sequence of numbers
sumOf(seq) ==
    sumRange(seq, 1, Len(seq))

\* buffer[at + i] = chars[i] for every i, on a Uint8Array: each element is
\* stored modulo 256 and a store past the end of the array is dropped.
storeChars(buffer, at, chars) ==
    LET room == IF Len(buffer) - at < 0 THEN 0 ELSE Len(buffer) - at
        n    == IF Len(chars) < room THEN Len(chars) ELSE room
    IN  SubSeq(buffer, 1, at)
          \o [ i \in 1..n |-> chars[i] % 256 ]
          \o SubSeq(buffer, at + n + 1, Len(buffer))

\* (entry.info as any)[field]
entryField(item, field) ==
    IF field \in DOMAIN item THEN item[field] ELSE Null

\* writeFieldValue on the view outputBuffer.subarray(base): the buffer after
\* the writes and the checksum returned.
writeFieldValue(buffer, base, field, value) ==
    LET val   == IF value.kind = "null" THEN field.default ELSE value
        chars == IF val.kind = "number" THEN num2oct(val.n, field.size - 1) ELSE val.v
    IN  IF val.kind = "null"
        THEN [ buffer |-> buffer, chksum |-> 0 ]
        ELSE [ buffer |-> storeChars(buffer, base + field.offset, chars),
               chksum |-> sumOf(chars) ]

\* Math.ceil(dataLength / blockSize)
ceilDiv(dataLength, blockSize) ==
    IF dataLength % blockSize = 0 THEN dataLength \div blockSize
    ELSE (dataLength \div blockSize) + 1

\* Mutant: the block count is rounded down.
bufferSizeOf_floor(dataLength, blockSize) ==
    ((dataLength \div blockSize) + 1) * blockSize

\* const bufferSize = (Math.ceil(dataLength / blockSize) + 1) * blockSize
bufferSizeOf(dataLength, blockSize) ==
    (ceilDiv(dataLength, blockSize) + 1) * blockSize

\* fields.reduce(...): the fields from number k on, written in order; each
\* write is complete (its buffer has its length) before the next one starts
RECURSIVE writeFields(_, _, _, _, _)
writeFields(tar, item, base, k, st) ==
    IF k > Len(tar.fields) THEN st
    ELSE LET w == writeFieldValue(st.buffer, base, tar.headers[k],
                                  entryField(item, tar.fields[k]))
         IN  IF Len(w.buffer) = Len(st.buffer)
             THEN writeFields(tar, item, base, k + 1,
                              [ buffer |-> w.buffer, chksum |-> st.chksum + w.chksum ])
             ELSE st

\* the body of chunks.reduce for one item at offset base: the header, the
\* size, the checksum, then the data one block further
writeEntry(tar, item, base, buffer) ==
    LET h == writeFields(tar, item, base, 1,
                         [ buffer |-> buffer, chksum |-> CHKSUM_BLANKS ])
        s == writeFieldValue(h.buffer, base, headerOf(tar, "size"), Num(Len(item.data)))
        c == writeFieldValue(s.buffer, base, headerOf(tar, "chksum"),
                             Num(h.chksum + s.chksum))
    IN  storeChars(c.buffer, base + tar.blockSize, item.data)

\* outputBufferSize
RECURSIVE outputBufferSizeOf(_, _, _)
outputBufferSizeOf(tar, entries, i) ==
    IF i > Len(entries) THEN 0
    ELSE bufferSizeOf(Len(entries[i].data), tar.blockSize)
           + outputBufferSizeOf(tar, entries, i + 1)

\* chunks.reduce(...): the items from number i on, written in order at their
\* offsets; an item is written completely before the next one starts
RECURSIVE writeChunks(_, _, _, _, _)
writeChunks(tar, entries, i, offset, buffer) ==
    IF i > Len(entries) THEN buffer
    ELSE LET written == writeEntry(tar, entries[i], offset, buffer)
         IN  IF Len(written) = Len(buffer)
             THEN writeChunks(tar, entries, i + 1,
                              offset + bufferSizeOf(Len(entries[i].data), tar.blockSize),
                              written)
             ELSE buffer

\* createTar(entries), with now the value of the clock
createTar(entries, now) ==
    LET tar  == initTar(now)
        size == outputBufferSizeOf(tar, entries, 1)
    IN  writeChunks(tar, entries, 1, 0, [ i \in 1..size |-> 0 ])


(***************************************************************************)
(* The archive encoder applied to drawn inputs.                            *)
(***************************************************************************)
MaxEntries == 2

\* a name of n letters 'a'
nameOfLength(n) ==
    [ i \in 1..n |-> 97 ]

\* n data bytes, none of them zero
dataOfLength(n) ==
    [ i \in 1..n |-> (i % 255) + 1 ]

\* The entries the model draws from: the build context of scenario 1, a name
\* that fills its field with no data, a name one character longer than its
\* field, a name with a character above 255 (U+6587), a name that reaches
\* past the magic field, a name that reaches past the header block and the
\* data, data of 1, 512 and 513 bytes, and entries that carry
\* a `size` of their own, a number or a text as wide as the field
\* ((entry.info as any)[field] reads whatever property the entry has).
TarEntryKinds ==
    { [ name |-> Str(DOCKERFILE_CHARS), data |-> FROM_ALPINE_BYTES ],
      [ name |-> Str(nameOfLength(100)), data |-> <<>> ],
      [ name |-> Str(nameOfLength(101)), data |-> dataOfLength(512) ],
      [ name |-> Str(<<25991>>), data |-> dataOfLength(513) ],
      [ name |-> Str(DOCKERFILE_CHARS), data |-> dataOfLength(1) ],
      [ name |-> Str(nameOfLength(263)), data |-> <<>> ],
      [ name |-> Str(nameOfLength(514)), data |-> dataOfLength(1) ],
      [ name |-> Str(DOCKERFILE_CHARS), data |-> dataOfLength(1), size |-> Num(5) ],
      [ name |-> Str(DOCKERFILE_CHARS), data |-> dataOfLength(1),
        size |-> Str(SIZE_TEXT) ] }

TarInputs ==
    UNION { [1..n -> TarEntryKinds] : n \in 0..MaxEntries }

InitTar ==
    /\ InitPipeline
    /\ tarEntries \in TarInputs
    /\ tarNow \in Clock
    /\ tarOut = <<>>
    /\ tarPc = "input"
    /\ InitAuthOff
    /\ InitBuildOff
    /\ InitUnreadQuiet

\* createTar is called on the entries
tar_createTar ==
    /\ tarPc = "input"
    /\ tarOut' = createTar(tarEntries, tarNow)
    /\ tarPc' = "encoded"
    /\ UNCHANGED <<tarEntries, tarNow, pipelineVars, auth, bld, unread>>

NextTar ==
    tar_createTar

SpecTar ==
    InitTar /\ [][NextTar]_vars

\* where entry i starts: the sizes of the chunks before it, each counted as
\* one header block and the least number of blocks that hold its data
RECURSIVE expectedStart(_, _)
expectedStart(entries, i) ==
    IF i = 1 THEN 0
    ELSE LET len    == Len(entries[i - 1].data)
             blocks == CHOOSE k \in 0..len : k * 512 >= len /\ (k = 0 \/ (k - 1) * 512 < len)
         IN  expectedStart(entries, i - 1) + (blocks + 1) * 512

\* the bytes of the header block of entry i
headerBlock(i) ==
    SubSeq(tarOut, expectedStart(tarEntries, i) + 1, expectedStart(tarEntries, i) + 512)

\* C9: for every entry encoded, the checksum field (8 bytes at header offset
\* 148) holds, as seven octal digits and a zero byte, the sum of all bytes
\* present in the header block outside that field, plus 256.
C9_ChecksumMatchesHeader ==
    tarPc = "encoded" =>
        \A i \in 1..Len(tarEntries) :
            LET h     == headerBlock(i)
                bytes == sumOf(SubSeq(h, 1, 148)) + sumOf(SubSeq(h, 157, 512))
            IN  SubSeq(h, 149, 156) = num2oct(bytes + 256, 7) \o <<0>>

\* C10: the buffer createTar returns is exactly as long as the sum over the
\* entries of (ceil(len_i / 512) + 1) * 512: nothing for the empty sequence,
\* one block for an entry without data, and no end-of-archive blocks.
C10_BufferLength ==
    tarPc = "encoded" =>
        Len(tarOut) = expectedStart(tarEntries \o <<[ name |-> Null, data |-> <<>> ]>>,
                                    Len(tarEntries) + 1)

C10_Witness ==
    /\ tarPc = "encoded"
    /\ Len(tarEntries) = 2
    /\ Len(tarEntries[1].data) = 0
    /\ Len(tarEntries[2].data) = 513
    /\ Len(tarOut) = 512 + 1536

\* C11: the header schema has 19 fields whose widths sum to 512, each placed
\* at the sum of the widths before it, and so in every entry encoded the magic
\* field (6 bytes at header offset 257) holds "ustar" and a zero byte.
C11_SchemaAndMagic ==
    LET tar == initTar(tarNow)
    IN  /\ Len(tar.fields) = 19
        /\ offsetAfter(Len(star_header)) = 512
        /\ \A k \in DOMAIN tar.headers :
              tar.headers[k].offset = sumOf([ j \in 1..(k - 1) |-> tar.headers[j].size ])
        /\ headerOf(tar, "magic").offset = 257 /\ headerOf(tar, "magic").size = 6
        /\ tarPc = "encoded" =>
              \A i \in 1..Len(tarEntries) :
                  SubSeq(headerBlock(i), 258, 263) = USTAR_CHARS \o <<0>>

(***************************************************************************)
(* More claims about the pipeline.                                         *)
(***************************************************************************)
\* the invocation was given neither a build script nor a run command
NothingToDo(r) ==
    r.pc # "idle" /\ r.options.build = Undefined /\ r.options.run = Undefined

\* C12: an invocation given neither a build script nor a run command has
\* emitted the warning; every operation it invokes belongs to emulation
\* registration (no restore, build, tag, export, save or run container); it is
\* marked failed only by an error of the registration itself; and past the
\* registration it has completed, unfailed, with the base image as its image.
C12_NothingToDoWarns ==
    \A p \in Procs :
        LET r == proc[p]
        IN  NothingToDo(r) =>
              /\ r.warned
              /\ \A c \in Range(r.calls) : c.stage = "registerEmulation"
              /\ r.failure # "none" => (r.pc = "failed" /\ r.stage = "registerEmulation")
              /\ r.stage # "registerEmulation" =>
                     /\ r.pc = "done"
                     /\ r.failure = "none"
                     /\ r.result = r.options.image
                     /\ r.imageToRun = r.options.image

C12_Witness ==
    \E p \in Procs :
        /\ NothingToDo(proc[p])
        /\ proc[p].pc = "done"
        /\ proc[p].warned
        /\ proc[p].lock = "false"
        /\ OpsOf(proc[p], "registerEmulation") =
               <<"createImage", "createContainer", "attach", "start", "wait", "writeLock">>

(***************************************************************************)
(* The `user` input (action.yml:34-38).  The workflow step supplies a user  *)
(* or not; the entry point (part_001:18-24) reads image, shell, build,     *)
(* bind, env, run and cache-prefix, and passes no user to main             *)
(* (part_001:47-58).  Two invocations with a run command and no build      *)
(* script run against an existing lock marker.                             *)
(***************************************************************************)
UserInputs ==
    <<Undefined, <<"1", "0", "0", "1", ":", "1", "0", "0", "1">> >>

RunOnlyOptions ==
    { o \in AllOptions : o.build = Undefined /\ o.run # Undefined }

InitUser ==
    /\ proc \in [Procs -> { [ entered(o) EXCEPT !.userInput = u ] :
                              o \in RunOnlyOptions, u \in Range(UserInputs) }]
    /\ lockMarker = TRUE
    /\ cacheDir = [d \in CacheDirectories |-> Undefined]
    /\ cacheStore = {}
    /\ invocations = Cardinality(Procs)
    /\ InitTarOff
    /\ InitAuthOff
    /\ InitBuildOff
    /\ InitUnreadQuiet

NextUser ==
    \E p \in Procs :
        \/ mkdirDone(p)
        \/ registerEmulation_stat(p)
        \/ Docker_run_createContainer(p)
        \/ Docker_run_attach(p)
        \/ Docker_run_start(p)
        \/ Docker_run_wait(p)

SpecUser ==
    InitUser /\ [][NextUser]_vars

\* the user and group executing the workflow, as `uid:gid`
CurrentUser ==
    <<"1", "0", "0", "1", ":", "1", "2", "1">>

\* C13: the run specification handed to createContainer by the run step has
\* as User the `user` input when the step supplies one and the current user
\* and group otherwise; it is never left unset.
C13_RunUserIsSet ==
    \A p \in Procs :
        LET r == proc[p]
        IN  CallsOp(r, "runCommand", "createContainer") # <<>> =>
              /\ r.create.User # Undefined
              /\ r.create.User = orDefault(r.userInput, CurrentUser)

\* 'ciemu-cache-', the head of the default prefix the README documents
DocumentedPrefixHead ==
    <<"c", "i", "e", "m", "u", "-", "c", "a", "c", "h", "e", "-">>

\* the default prefix the README documents for an image
DocumentedDefaultPrefix(image) ==
    DocumentedPrefixHead \o replaceRuns(image, 1, FALSE)

\* the options are those the entry point computes when no cache-prefix is given
NoPrefixInput(options) ==
    \E i \in Range(ImageInputs), s \in Range(ShellInputs),
       b \in Range(BuildInputs), r \in Range(RunInputs) :
        options = optionsOf(i, Undefined, s, b, r)

\* C14: without a cache-prefix input the cache prefix is 'ciemu-cache-' and
\* the image reference with every run of characters outside [-_a-zA-Z0-9]
\* made one '-' (alpine:3.17 gives ciemu-cache-alpine-3-17); so two
\* invocations whose images differ after that replacement have different
\* prefixes and different cache directories.
C14_DefaultPrefixFromImage ==
    /\ \A p \in Procs :
           (proc[p].pc # "idle" /\ NoPrefixInput(proc[p].options)) =>
               proc[p].options.cachePrefix = DocumentedDefaultPrefix(proc[p].options.image)
    /\ \A p, q \in Procs :
           ( /\ proc[p].pc # "idle" /\ NoPrefixInput(proc[p].options)
             /\ proc[q].pc # "idle" /\ NoPrefixInput(proc[q].options)
             /\ replaceRuns(proc[p].options.image, 1, FALSE)
                    # replaceRuns(proc[q].options.image, 1, FALSE) ) =>
               /\ proc[p].options.cachePrefix # proc[q].options.cachePrefix
               /\ proc[p].options.cacheDirectory # proc[q].options.cacheDirectory

(***************************************************************************)
(* Registry credentials: the client the entry point of src/src/main.ts     *)
(* builds (lines 43-52) and Docker.createImage / Docker.pushImage          *)
(* (docker.ts:102-117, 149-165) with RegExpPatternAuthenticationHandler    *)
(* (docker.ts:294-307).                                                    *)
(***************************************************************************)
\* one element of a regular expression: a literal character or `.`
Lit(c) ==
    [ kind |-> "char", c |-> c ]

AnyChar ==
    [ kind |-> "any", c |-> "" ]

\* /^ghcr.io\//: anchored at the start, the `.` not escaped
GhcrPattern ==
    <<Lit("g"), Lit("h"), Lit("c"), Lit("r"), AnyChar, Lit("i"), Lit("o"), Lit("/")>>

\* the characters `.` does not match
LineTerminators ==
    {"\n", "\r"}

\* pattern.test(name) for a pattern anchored at the start
patternTest(pattern, name) ==
    /\ Len(name) >= Len(pattern)
    /\ \A i \in DOMAIN pattern :
           IF pattern[i].kind = "any" THEN name[i] \notin LineTerminators
           ELSE name[i] = pattern[i].c

\* no authconfig (undefined)
NoAuth ==
    [ username |-> Undefined, password |-> Undefined ]

\* github.context.actor
Actor ==
    <<"o", "c", "t", "o", "c", "a", "t">>

TokenInputs ==
    <<Undefined, <<"g", "h", "s", "_", "1">> >>

\* an authconfig passed explicitly to createImage or pushImage
ExplicitAuth ==
    [ username |-> <<"b", "o", "t">>, password |-> <<"p", "w">> ]

ImageNames ==
    { <<"g", "h", "c", "r", ".", "i", "o", "/", "o", "/", "r">>,
      <<"g", "h", "c", "r", "x", "i", "o", "/", "o", "/", "r">>,
      <<"g", "h", "c", "r", ".", "i", "o">>,
      <<"G", "H", "C", "R", ".", "I", "O", "/", "o", "/", "r">>,
      <<"x", "/", "g", "h", "c", "r", ".", "i", "o", "/", "r">>,
      <<"d", "o", "c", "k", "e", "r", ".", "i", "o", "/", "r">>,
      QemuImage,
      DefaultImage }

\* RegExpPatternAuthenticationHandler.authenticate(name)
authenticate(handler, name) ==
    IF patternTest(handler.pattern, name) THEN handler.authconfig ELSE NoAuth

\* options.auth of new Docker({ auth: token ? new RegExp...Handler(...) : _ })
authHandlerOf(token) ==
    IF token # Undefined
    THEN [ set |-> TRUE, pattern |-> GhcrPattern,
           authconfig |-> [ username |-> Actor, password |-> token ] ]
    ELSE [ set |-> FALSE, pattern |-> <<>>, authconfig |-> NoAuth ]

\* authconfig ?? await this.options?.auth?.authenticate(name)
requestAuthOf(authconfig, handler, name) ==
    IF authconfig # NoAuth THEN authconfig
    ELSE IF handler.set THEN authenticate(handler, name)
    ELSE NoAuth

InitAuth ==
    /\ InitPipeline
    /\ InitTarOff
    /\ InitBuildOff
    /\ InitUnreadQuiet
    /\ auth \in [ pc : {"input"}, token : Range(TokenInputs), name : ImageNames,
                  authconfig : {NoAuth, ExplicitAuth},
                  op : {"none"}, request : {NoAuth}, ok : {FALSE} ]

\* Docker.createImage({ options: { fromImage: name }, authconfig }): the
\* request and its dial
Docker_createImage ==
    /\ auth.pc = "input"
    /\ \E ok \in BOOLEAN :
         auth' = [ auth EXCEPT
                     !.pc = "dialed", !.op = "createImage", !.ok = ok,
                     !.request = requestAuthOf(auth.authconfig, authHandlerOf(auth.token),
                                               auth.name) ]
    /\ UNCHANGED <<pipelineVars, tarVars, bld, unread>>

\* Docker.pushImage({ name, authconfig }): the request and its dial
Docker_pushImage ==
    /\ auth.pc = "input"
    /\ \E ok \in BOOLEAN :
         auth' = [ auth EXCEPT
                     !.pc = "dialed", !.op = "pushImage", !.ok = ok,
                     !.request = requestAuthOf(auth.authconfig, authHandlerOf(auth.token),
                                               auth.name) ]
    /\ UNCHANGED <<pipelineVars, tarVars, bld, unread>>

NextAuth ==
    Docker_createImage \/ Docker_pushImage

SpecAuth ==
    InitAuth /\ [][NextAuth]_vars

\* 'ghcr.io/'
GhcrPrefix ==
    <<"g", "h", "c", "r", ".", "i", "o", "/">>

\* C15: a pull or push made without an explicit authconfig through the client
\* built with a token carries the credentials (actor, token) if and only if
\* the image name begins with the text ghcr.io/, and carries none for every
\* other name; an explicit authconfig is the one the request carries.
C15_TokenOnlyForGhcr ==
    auth.pc = "dialed" =>
        /\ auth.authconfig # NoAuth => auth.request = auth.authconfig
        /\ (auth.authconfig = NoAuth /\ auth.token # Undefined) =>
               /\ auth.request = [ username |-> Actor, password |-> auth.token ]
                      <=> IsPrefix(GhcrPrefix, auth.name)
               /\ ~IsPrefix(GhcrPrefix, auth.name) => auth.request = NoAuth

\* the errors the step awaited at pc can raise, r being the invocation after it
RaisedAt(pc, r) ==
    CASE pc = "reg_createImage"       -> {"createImage failed"}
      [] pc = "reg_followProgress"    -> {"pull stream failed"}
      [] pc = "run_createContainer"   -> {"createContainer failed"}
      [] pc = "run_attach"            -> {"attach failed"}
      [] pc = "run_start"             -> {"start failed"}
      [] pc = "run_wait"              -> {"wait failed"}
      [] pc = "reg_writeFile"         -> {"writeFile lock failed"}
      [] pc = "build_restoreCache"    -> {"restoreCache failed"}
      [] pc = "build_open"            -> {"open image.tar failed"}
      [] pc = "build_importImages"    -> {"importImages failed"}
      [] pc = "build_followImport"    -> {"import stream failed"}
      [] pc = "build_close"           -> {"close failed"}
      [] pc = "build_dial"            -> {"build failed"}
      [] pc = "build_followProgress"  -> {"build stream failed", r.buildError} \ {"none"}
      [] pc = "build_tag"             -> {"tag failed"}
      [] pc = "build_exportImage"     -> {"exportImage failed"}
      [] pc = "build_writeFile"       -> {"writeFile image.tar failed"}
      [] pc = "build_saveCache"       -> {"saveCache failed"}
      [] OTHER                        -> {}

\* C16: an invocation is marked failed exactly when a step raised an error,
\* and with the error that step raised; from then on it invokes nothing more
\* and its failure stays as it is until the slot starts a new invocation; and
\* no operation is invoked twice in one step of an invocation (no retry).
C16_ErrorsStopThePipeline ==
    /\ [](\A p \in Procs :
              /\ proc[p].pc = "failed" <=> proc[p].failure # "none"
              /\ \A i, j \in DOMAIN proc[p].calls :
                     ( /\ proc[p].calls[i].op = proc[p].calls[j].op
                       /\ proc[p].calls[i].stage = proc[p].calls[j].stage ) => i = j)
    /\ [][\A p \in Procs :
              (proc[p].pc # "failed" /\ proc'[p].pc = "failed") =>
                  /\ proc'[p].failure \in RaisedAt(proc[p].pc, proc'[p])
                  /\ proc'[p].stage = proc[p].stage
                  /\ Len(proc'[p].calls) <= Len(proc[p].calls) + 1]_vars
    /\ [][\A p \in Procs :
              proc[p].pc = "failed" =>
                  \/ /\ proc'[p].pc = "failed"
                     /\ proc'[p].failure = proc[p].failure
                     /\ proc'[p].calls = proc[p].calls
                     /\ proc'[p].stage = proc[p].stage
                  \/ /\ proc'[p].pc = "reg_stat"
                     /\ proc'[p].calls = <<>>
                     /\ invocations' = invocations + 1]_vars

C16_Witness ==
    \E p \in Procs :
        /\ proc[p].pc = "failed"
        /\ proc[p].failure = "importImages failed"
        /\ proc[p].options.run # Undefined
        /\ OpsOf(proc[p], "buildImage") = HitOps
        /\ OpsOf(proc[p], "runCommand") = <<>>
        /\ ~proc[p].mkdirPending

\* the operations of a registration that found no lock marker, in order
RegisterOps ==
    <<"createImage", "createContainer", "attach", "start", "wait", "writeLock">>

\* registerEmulation was called and has returned
RegisterReturned(r) ==
    \/ r.lock = "true" /\ OpsOf(r, "registerEmulation") = <<>>
    \/ r.lock = "false" /\ OpsOf(r, "registerEmulation") = RegisterOps

\* C17: every invocation starts in registerEmulation, and nothing of the
\* build or run steps (restore, import, build, tag, export, save, user
\* container) is invoked before registerEmulation has returned: an invocation
\* past the registration, or with any operation outside it, has a returned
\* registration, and in the order of its operations all those of the
\* registration come first.
C17_RegistrationFirst ==
    \A p \in Procs :
        LET r == proc[p]
        IN  /\ r.pc # "idle" =>
                   r.stage \in {"registerEmulation", "buildImage", "runCommand", "returned"}
            /\ ( \/ r.stage \in {"buildImage", "runCommand", "returned"}
                 \/ \E c \in Range(r.calls) : c.stage # "registerEmulation" ) =>
                   RegisterReturned(r)
            /\ \A i, j \in DOMAIN r.calls :
                   ( /\ r.calls[i].stage = "registerEmulation"
                     /\ r.calls[j].stage # "registerEmulation" ) => i < j

C17_Witness ==
    \E p \in Procs :
        /\ proc[p].pc = "done"
        /\ proc[p].lock = "false"
        /\ OpsOf(proc[p], "registerEmulation") = RegisterOps
        /\ OpsOf(proc[p], "buildImage") = MissOps
        /\ Len(OpsOf(proc[p], "runCommand")) = 4

\* the errors of the pull and of the helper run of registerEmulation
PullOrRunErrors ==
    {"createImage failed", "pull stream failed", "createContainer failed",
     "attach failed", "start failed", "wait failed"}

\* C18: the lock marker appears only by the write of an invocation whose
\* registration has pulled the helper image, followed the pull's progress
\* stream to its end and then created, attached, started and waited for the
\* helper container, in that order (the exit status of the helper is not
\* looked at); and an invocation whose pull or helper run raised an error is
\* failed in registerEmulation, has not written the marker and has invoked
\* nothing of the build or run steps.
C18_LockAfterPullAndRun ==
    /\ [][(~lockMarker /\ lockMarker') =>
              \E p \in Procs :
                  /\ proc[p].pc = "reg_writeFile"
                  /\ OpsOf(proc[p], "registerEmulation") = SubSeq(RegisterOps, 1, 5)
                  /\ OpsOf(proc'[p], "registerEmulation") = RegisterOps
                  /\ \A c \in Range(CallsOp(proc[p], "registerEmulation", "wait")) :
                         c.code # NoCode]_vars
    /\ [][\A p \in Procs :
              ( /\ proc'[p].stage = "registerEmulation"
                /\ proc'[p].pc = "run_createContainer"
                /\ proc[p].pc # "run_createContainer" ) =>
                  /\ proc[p].pc = "reg_followProgress"
                  /\ OpsOf(proc[p], "registerEmulation") = <<"createImage">>]_vars
    /\ [](\A p \in Procs :
              ( /\ proc[p].stage = "registerEmulation"
                /\ proc[p].failure \in PullOrRunErrors ) =>
                  /\ proc[p].pc = "failed"
                  /\ ~lockMarker
                  /\ \A c \in Range(proc[p].calls) :
                         c.stage = "registerEmulation" /\ c.op # "writeLock")

C18_Witness ==
    \E p \in Procs :
        /\ proc[p].pc = "failed"
        /\ proc[p].stage = "registerEmulation"
        /\ proc[p].failure = "start failed"
        /\ proc[p].options.build # Undefined
        /\ proc[p].options.run # Undefined
        /\ ~lockMarker
        /\ invocations = 2

\* the errors of the cache write of buildImage
CacheWriteErrors ==
    {"tag failed", "exportImage failed", "writeFile image.tar failed", "saveCache failed"}

\* C19: an invocation in which tag, exportImage, the write of the snapshot or
\* saveCache raised an error after a build that reported no error is marked
\* failed inside buildImage: buildImage has not returned, the run step has
\* invoked nothing and no exit code is reported; and an invocation that left
\* buildImage after a cache miss has made all four cache writes, so it never
\* goes on with the built image after a failed one.
C19_CacheWriteFailureIsFatal ==
    \A p \in Procs :
        LET r == proc[p]
        IN  /\ r.failure \in CacheWriteErrors =>
                  /\ r.pc = "failed"
                  /\ r.stage = "buildImage"
                  /\ r.cacheResult = "miss"
                  /\ r.buildError = "none"
                  /\ IsPrefix(OpsOf(r, "buildImage"), MissOps)
                  /\ Len(OpsOf(r, "buildImage")) >= 3
                  /\ OpsOf(r, "runCommand") = <<>>
                  /\ r.result = Undefined
                  /\ r.outputs.exitCode = NoCode
            /\ (r.cacheResult = "miss" /\ BuildReturned(r)) =>
                  /\ r.failure \notin CacheWriteErrors
                  /\ OpsOf(r, "buildImage") = MissOps

C19_Witness ==
    \E p \in Procs :
        /\ proc[p].pc = "failed"
        /\ proc[p].failure = "saveCache failed"
        /\ proc[p].options.run # Undefined
        /\ proc[p].buildId # "none"
        /\ OpsOf(proc[p], "buildImage") = MissOps
        /\ OpsOf(proc[p], "runCommand") = <<>>

\* C20: the cache store gains a record only by the saveCache of an invocation
\* whose restoreCache missed and whose build (reporting no error and an image
\* id), tag with the key, exportImage and write of the snapshot have completed
\* in that order, the record being that snapshot under the key; and an
\* invocation whose build failed or reported an error has invoked no
\* saveCache.
C20_SavedOnlyAfterBuild ==
    /\ [][cacheStore' # cacheStore =>
              \E p \in Procs :
                  /\ proc[p].pc = "build_saveCache"
                  /\ proc[p].cacheResult = "miss"
                  /\ proc[p].buildError = "none"
                  /\ proc[p].buildId # "none"
                  /\ OpsOf(proc[p], "buildImage") = SubSeq(MissOps, 1, 5)
                  /\ \A c \in Range(CallsOp(proc[p], "buildImage", "tag")) :
                         c.arg = proc[p].builtImage
                  /\ cacheDir[proc[p].options.cacheDirectory] = proc[p].builtImage
                  /\ cacheStore' = cacheStore \cup
                         { [ key |-> proc[p].builtImage, content |-> proc[p].builtImage ] }]_vars
    /\ [](\A p \in Procs :
              /\ CallsOp(proc[p], "buildImage", "saveCache") # <<>> =>
                     /\ proc[p].cacheResult = "miss"
                     /\ OpsOf(proc[p], "buildImage") = MissOps
              /\ ( \/ proc[p].buildError # "none"
                   \/ proc[p].failure \in {"build failed", "build stream failed"} ) =>
                     CallsOp(proc[p], "buildImage", "saveCache") = <<>>)

C20_Witness ==
    \E p \in Procs :
        /\ proc[p].pc = "done"
        /\ proc[p].cacheResult = "miss"
        /\ OpsOf(proc[p], "buildImage") = MissOps
        /\ [ key |-> proc[p].builtImage, content |-> proc[p].builtImage ] \in cacheStore
        /\ Cardinality(cacheStore) = 2

(***************************************************************************)
(* Docker.build on its own (docker.ts:58-100): the response of the dial is *)
(* a progress stream; followProgress hands its events one by one to the    *)
(* callback, and resolves at the end of the stream or rejects when the     *)
(* stream breaks.                                                          *)
(***************************************************************************)
InitBuild ==
    /\ InitPipeline
    /\ InitTarOff
    /\ InitAuthOff
    /\ InitUnreadQuiet
    /\ bld \in [ pc : {"following"}, events : ProgressStreams, pos : {0},
                 st : {BuildStart(TRUE), BuildStart(FALSE)},
                 thrown : {"none"}, image : {"none"} ]

\* followProgress delivers the next event to the callback
Docker_build_onProgress ==
    /\ bld.pc = "following"
    /\ bld.pos < Len(bld.events)
    /\ bld' = [ bld EXCEPT !.pos = @ + 1,
                           !.st = onBuildProgress(@, bld.events[bld.pos + 1]) ]
    /\ UNCHANGED <<pipelineVars, tarVars, auth, unread>>

\* the stream breaks: followProgress rejects and build rejects with it
Docker_build_streamError ==
    /\ bld.pc = "following"
    /\ bld' = [ bld EXCEPT !.pc = "rejected", !.thrown = "build stream failed" ]
    /\ UNCHANGED <<pipelineVars, tarVars, auth, unread>>

\* the stream ends: if (error) throw error; return new DockerImage(this,
\* result.ID) (docker.ts:95-99)
Docker_build_end ==
    /\ bld.pc = "following"
    /\ bld.pos = Len(bld.events)
    /\ bld' = IF bld.st.error # "none"
              THEN [ bld EXCEPT !.pc = "thrown", !.thrown = bld.st.error ]
              ELSE [ bld EXCEPT !.pc = "returned", !.image = bld.st.ID ]
    /\ UNCHANGED <<pipelineVars, tarVars, auth, unread>>

NextBuild ==
    Docker_build_onProgress \/ Docker_build_streamError \/ Docker_build_end

SpecBuild ==
    InitBuild /\ [][NextBuild]_vars

\* the places of the `error` events of a stream
ErrorPlaces(events) ==
    { i \in DOMAIN events : events[i].error # "none" }

\* the first `error` event of a stream that has one
FirstError(events) ==
    events[CHOOSE i \in ErrorPlaces(events) : \A j \in ErrorPlaces(events) : i <= j].error

\* C21: when the stream read to its end held `error` events, the error
\* docker.build throws is the first of them.
C21_FirstErrorSurfaced ==
    bld.pc = "thrown" => bld.thrown = FirstError(bld.events)

\* the four container operations of Docker.run, in the order of its awaits
RunOps ==
    <<"createContainer", "attach", "start", "wait">>

\* the place in RunOps of the operation whose rejection is the failure err
\* (0: the failure is none of them)
RunFailurePlace(err) ==
    CASE err = "createContainer failed" -> 1
      [] err = "attach failed"          -> 2
      [] err = "start failed"           -> 3
      [] err = "wait failed"            -> 4
      [] OTHER                          -> 0

\* C22: in each step that calls Docker.run (the registration and the run step)
\* the container operations invoked are create, attach, start, wait in that
\* order, each at most once; an operation that rejected is the last one
\* invoked, so each is invoked only after the previous one resolved; and when
\* the run step has returned, the status it reports is the StatusCode that
\* wait, the fourth operation, resolved with.
C22_RunOrder ==
    \A p \in Procs : \A stage \in {"registerEmulation", "runCommand"} :
        LET r   == proc[p]
            ops == SelectSeq(OpsOf(r, stage), LAMBDA o : o \in ContainerOps)
            w   == CallsOp(r, stage, "wait")
        IN  /\ IsPrefix(ops, RunOps)
            /\ (r.pc = "failed" /\ r.stage = stage /\ RunFailurePlace(r.failure) > 0)
                  => Len(ops) = RunFailurePlace(r.failure)
            /\ (r.stage = stage /\ r.pc \in {"run_attach", "run_start", "run_wait"})
                  => /\ ops # <<>>
                     /\ r.pc = DockerRunNext(ops[Len(ops)])
            /\ (stage = "registerEmulation" /\ r.pc = "reg_writeFile")
                  => (ops = RunOps /\ w[1].code \in StatusCodes)
            /\ (stage = "runCommand" /\ r.stage = "returned" /\ r.options.run # Undefined)
                  => (ops = RunOps /\ r.outputs.exitCode = w[Len(w)].code
                      /\ w[Len(w)] = r.calls[Len(r.calls)])

C22_Witness ==
    \E p \in Procs :
        /\ proc[p].stage = "returned"
        /\ OpsOf(proc[p], "registerEmulation")
             = <<"createImage">> \o RunOps \o <<"writeLock">>
        /\ OpsOf(proc[p], "runCommand") = RunOps
        /\ proc[p].outputs.exitCode = 2

\* the place of a step in main (ciemu.ts:36-52)
StepRank(stage) ==
    CASE stage = "registerEmulation" -> 1
      [] stage = "buildImage"        -> 2
      [] stage = "runCommand"        -> 3

\* C23: within one invocation the creation of the cache directory has
\* completed before any operation of the registration, the cache restore or
\* the snapshot write is invoked, and the operations of the registration all
\* come before those of the build step, which all come before those of the
\* run step.
C23_FullySequential ==
    \A p \in Procs :
        LET r == proc[p]
        IN  /\ r.calls # <<>> => ~r.mkdirPending
            /\ \A i, j \in DOMAIN r.calls :
                 i < j => StepRank(r.calls[i].stage) <= StepRank(r.calls[j].stage)

\* the awaits of the hit branch of buildImage (ciemu.ts:142-149)
HitPcs ==
    {"build_open", "build_importImages", "build_followImport", "build_close"}

\* the errors of opening the snapshot and of importing it
HitErrors ==
    {"open image.tar failed", "importImages failed", "import stream failed",
     "close failed"}

\* C24: after restoreCache reported a hit, the build step is either still in
\* its hit branch or has ended the invocation failed with the error of the
\* opening or of the import; in that case docker.build was not invoked, no
\* operation of the run step was invoked and main returned nothing.
C24_NoFallbackAfterHit ==
    \A p \in Procs :
        LET r == proc[p]
        IN  (r.cacheResult = "hit" /\ r.stage = "buildImage" /\ r.pc \notin HitPcs) =>
              /\ r.pc = "failed"
              /\ r.failure \in HitErrors
              /\ CallsOp(r, "buildImage", "build") = <<>>
              /\ OpsOf(r, "runCommand") = <<>>
              /\ r.result = Undefined
              /\ r.outputs.exitCode = NoCode

C24_Witness ==
    \E p \in Procs :
        /\ proc[p].cacheResult = "hit"
        /\ proc[p].options.run # Undefined
        /\ proc[p].pc = "failed"
        /\ proc[p].failure = "open image.tar failed"
        /\ OpsOf(proc[p], "buildImage") = <<"restoreCache", "open">>

\* C25: once the wait of the run container has resolved, with whatever
\* StatusCode, zero or not, the invocation has completed normally: it is not
\* failed, the exit-code output is that StatusCode, and main has returned the
\* image it ran.
C25_NonZeroExitIsNotFailure ==
    \A p \in Procs :
        LET r == proc[p]
            w == CallsOp(r, "runCommand", "wait")
        IN  (w # <<>> /\ w[1].code # NoCode) =>
              /\ r.pc = "done"
              /\ r.failure = "none"
              /\ r.outputs.exitCode = w[1].code
              /\ r.stage = "returned"
              /\ r.result = r.create.Image

C25_Witness ==
    \E p \in Procs :
        /\ proc[p].pc = "done"
        /\ proc[p].failure = "none"
        /\ CallsOp(proc[p], "runCommand", "wait") # <<>>
        /\ CallsOp(proc[p], "runCommand", "wait")[1].code = MaxStatus
        /\ proc[p].outputs.exitCode = MaxStatus

\* C26: once the wait of the helper container has resolved, with whatever
\* StatusCode, registerEmulation is at the write of the lock marker or has
\* invoked it; a write that did not fail leaves the marker present; an
\* invocation that found the marker present invokes no operation of the
\* registration, and the marker is present only to invocations that find it so
\* or wrote it themselves.
C26_LockDespiteHelperStatus ==
    \A p \in Procs :
        LET r == proc[p]
            w == CallsOp(r, "registerEmulation", "wait")
            l == CallsOp(r, "registerEmulation", "writeLock")
        IN  /\ (w # <<>> /\ w[1].code # NoCode) =>
                  /\ r.pc = "reg_writeFile" \/ l # <<>>
                  /\ r.failure \in {"none", "writeFile lock failed"}
                       \/ r.stage # "registerEmulation"
            /\ (l # <<>> /\ r.failure # "writeFile lock failed") => lockMarker
            /\ r.lock = "true" => OpsOf(r, "registerEmulation") = <<>>
            /\ (lockMarker /\ r.lock = "false") => l # <<>>

C26_Witness ==
    \E p \in Procs :
        /\ lockMarker
        /\ CallsOp(proc[p], "registerEmulation", "wait") # <<>>
        /\ CallsOp(proc[p], "registerEmulation", "wait")[1].code = MaxStatus
        /\ CallsOp(proc[p], "registerEmulation", "writeLock") # <<>>
        /\ proc[p].stage # "registerEmulation"

(***************************************************************************)
(* The `bind` input (part_001:21, 29): a space-separated list of bind      *)
(* mounts that the entry point splits into the `binds` option.  Two         *)
(* invocations with a run command and no build script run against an       *)
(* existing lock marker.                                                   *)
(***************************************************************************)
Space ==
    " "

\* shlex.split(bind) on a text without quotes and escapes: its words, in
\* order, separated by runs of spaces
RECURSIVE shlexSplit(_, _, _, _)
shlexSplit(text, i, word, words) ==
    LET closed == IF word = <<>> THEN words ELSE Append(words, word)
    IN  IF i > Len(text) THEN closed
        ELSE IF text[i] = Space THEN shlexSplit(text, i + 1, <<>>, closed)
        ELSE shlexSplit(text, i + 1, Append(word, text[i]), words)

\* let binds = bind ? shlex.split(bind) : _ (part_001:29)
bindsOf(bind) ==
    IF bind = Undefined THEN Undefined ELSE shlexSplit(bind, 1, <<>>, <<>>)

BindA ==
    <<"/", "a", ":", "/", "a">>

BindB ==
    <<"/", "b", ":", "/", "b", ":", "r", "o">>

BindInputs ==
    <<Undefined,
      BindA,
      BindA \o <<Space>> \o BindB,
      BindB \o <<Space>> \o BindA,
      BindA \o <<Space>> \o BindA,
      BindB \o <<Space>> \o BindA \o <<Space>> \o BindB>>

InitBind ==
    /\ proc \in [Procs -> { [ entered([ o EXCEPT !.binds = bindsOf(b) ])
                                EXCEPT !.bindInput = b ] :
                              o \in RunOnlyOptions, b \in Range(BindInputs) }]
    /\ lockMarker = TRUE
    /\ cacheDir = [d \in CacheDirectories |-> Undefined]
    /\ cacheStore = {}
    /\ invocations = Cardinality(Procs)
    /\ InitTarOff
    /\ InitAuthOff
    /\ InitBuildOff
    /\ InitUnreadQuiet

SpecBind ==
    InitBind /\ [][NextUser]_vars

\* the words of a list joined by single spaces
RECURSIVE joinWords(_)
joinWords(words) ==
    IF words = <<>> THEN <<>>
    ELSE IF Len(words) = 1 THEN words[1]
    ELSE words[1] \o <<Space>> \o joinWords(Tail(words))

\* C27: the Binds of every run container are, in this order, the docker
\* socket read-only, the action's directory read-only, the workspace
\* read-write, and then the words of the `bind` input, each one once for each
\* time it was given and in the order given.
C27_MandatoryBindsThenUserBinds ==
    \A p \in Procs :
        LET r == proc[p]
            B == r.create.Binds
        IN  CallsOp(r, "runCommand", "createContainer") # <<>> =>
              /\ Len(B) >= 3
              /\ B[1] = <<DockerSock, DockerSock, "ro">>
              /\ B[2] = <<CiemuDirectory, CiemuDirectory, "ro">>
              /\ B[3] = <<Workspace, Workspace>>
              /\ joinWords(SubSeq(B, 4, Len(B))) = r.bindInput
              /\ \A i \in 4..Len(B) : B[i] # <<>> /\ Space \notin Range(B[i])

C27_Witness ==
    \E p \in Procs :
        /\ CallsOp(proc[p], "runCommand", "createContainer") # <<>>
        /\ proc[p].bindInput = BindB \o <<Space>> \o BindA \o <<Space>> \o BindB
        /\ SubSeq(proc[p].create.Binds, 4, 6) = <<BindB, BindA, BindB>>

\* C28: an invocation without a build script never enters the build step: no
\* cache key is derived (there is no built image name and no build context),
\* the cache is not consulted, no operation of the build step is invoked, and
\* the image to run stays the base image, which is the image the run container
\* is created from and the image main returns.
C28_NoBuildWithoutScript ==
    \A p \in Procs :
        LET r == proc[p]
        IN  (r.pc # "idle" /\ r.options.build = Undefined) =>
              /\ r.builtImage = Undefined
              /\ r.context = NoContext
              /\ r.cacheResult = "unset"
              /\ OpsOf(r, "buildImage") = <<>>
              /\ r.stage # "buildImage"
              /\ r.imageToRun = r.options.image
              /\ \A c \in Range(CallsOp(r, "runCommand", "createContainer")) :
                   c.arg = r.options.image
              /\ r.stage = "returned" => r.result = r.options.image

C28_Witness ==
    \E p \in Procs :
        /\ proc[p].options.build = Undefined
        /\ proc[p].options.run # Undefined
        /\ proc[p].options.image = ImageAlpine317
        /\ proc[p].pc = "done"
        /\ cacheStore # {}
        /\ CallsOp(proc[p], "runCommand", "createContainer")[1].arg = ImageAlpine317

(***************************************************************************)
(* The pipeline with a daemon whose pull and import progress streams may   *)
(* carry `error` events.                                                   *)
(***************************************************************************)
InitStream ==
    /\ InitPipeline
    /\ InitTarOff
    /\ InitAuthOff
    /\ InitBuildOff
    /\ unread = UnreadStreams

SpecStream ==
    InitStream /\ [][Next]_vars

\* C29: an invocation whose helper-image pull stream carried an `error` event
\* has failed in the registration without running the helper container and
\* without writing the lock marker; one whose import stream carried an `error`
\* event has failed in the build step, the cached image is not its image to
\* run and no operation of the run step was invoked; one whose build stream
\* carried an `error` event has failed in the build step without any later
\* operation.
C29_ErrorEventAborts ==
    \A p \in Procs :
        LET r == proc[p]
        IN  /\ r.pullErrorEvent =>
                  /\ r.pc = "failed"
                  /\ r.stage = "registerEmulation"
                  /\ OpsOf(r, "registerEmulation") = <<"createImage">>
            /\ r.importErrorEvent =>
                  /\ r.pc = "failed"
                  /\ r.stage = "buildImage"
                  /\ r.imageToRun # r.builtImage
                  /\ OpsOf(r, "runCommand") = <<>>
            /\ r.buildError # "none" =>
                  /\ r.pc = "failed"
                  /\ r.stage = "buildImage"
                  /\ OpsOf(r, "buildImage") = <<"restoreCache", "build">>
                  /\ OpsOf(r, "runCommand") = <<>>

(***************************************************************************)
(* Two invocations of the action started at the same time on one runtime   *)
(* directory, with the same inputs: the awaits of the two interleave       *)
(* freely.                                                                 *)
(***************************************************************************)
RaceOptions ==
    { o \in AllOptions : /\ o.image = DefaultImage
                         /\ o.cachePrefix = cachePrefixOf(Undefined, DefaultImage)
                         /\ o.build = BuildEchoHi
                         /\ o.run = Undefined }

InitRace ==
    /\ proc \in [Procs -> { entered(o) : o \in RaceOptions }]
    /\ lockMarker = FALSE
    /\ cacheDir = [d \in CacheDirectories |-> Undefined]
    /\ cacheStore = {}
    /\ invocations = Cardinality(Procs)
    /\ InitTarOff
    /\ InitAuthOff
    /\ InitBuildOff
    /\ InitUnreadQuiet

NextRace ==
    \E p \in Procs :
        \/ mkdirDone(p)
        \/ registerEmulation_stat(p)
        \/ registerEmulation_createImage(p)
        \/ registerEmulation_followProgress(p)
        \/ Docker_run_createContainer(p)
        \/ Docker_run_attach(p)
        \/ Docker_run_start(p)
        \/ Docker_run_wait(p)
        \/ registerEmulation_writeFile(p)
        \/ buildImage_restoreCache(p)
        \/ buildImage_open(p)
        \/ buildImage_importImages(p)
        \/ buildImage_followImport(p)
        \/ buildImage_close(p)
        \/ Docker_build_dial(p)
        \/ Docker_build_followProgress(p)
        \/ buildImage_tag(p)
        \/ buildImage_exportImage(p)
        \/ buildImage_writeFile(p)
        \/ buildImage_saveCache(p)

SpecRace ==
    InitRace /\ [][NextRace]_vars

\* C30: nothing holds an invocation back while another one is inside its
\* registration or its snapshot write: an invocation at its look at the lock
\* marker can take it whatever the other is doing, and finds the marker absent
\* as long as no write of it has completed; an invocation at its write of the
\* marker or of the snapshot file can take it whatever the other is doing.
C30_NoLocking ==
    \A p \in Procs :
        /\ (proc[p].pc = "reg_stat" /\ ~lockMarker) =>
              ENABLED (registerEmulation_stat(p) /\ proc'[p].lock = "false")
        /\ proc[p].pc = "reg_writeFile" => ENABLED registerEmulation_writeFile(p)
        /\ proc[p].pc = "build_writeFile" => ENABLED buildImage_writeFile(p)

\* both invocations found the marker absent, both pulled and ran the helper
\* and wrote the marker, and both wrote the same snapshot file
C30_Witness ==
    /\ \A p \in Procs :
         /\ proc[p].lock = "false"
         /\ OpsOf(proc[p], "registerEmulation")
              = <<"createImage">> \o RunOps \o <<"writeLock">>
         /\ CallsOp(proc[p], "buildImage", "writeFile") # <<>>
         /\ proc[p].pc = "done"
    /\ proc[1].options.cacheDirectory = proc[2].options.cacheDirectory
    /\ proc[1].builtImage = proc[2].builtImage

(***************************************************************************)
(* More claims about the archive encoder.                                  *)
(***************************************************************************)
\* the header fields whose value is a number
NumericFields ==
    {"uid", "gid", "size", "mtime", "chksum", "typeflag"}

OctalDigits ==
    { CODE_ZERO + d : d \in 0..7 }

\* the bytes of field f in the header block of entry i
fieldBytes(i, f) ==
    SubSeq(headerBlock(i), f.offset + 1, f.offset + f.size)

\* C31: in every entry encoded, each of uid, gid, size, mtime, chksum and
\* typeflag holds (width - 1) octal digits followed by a zero byte, and the
\* size field holds the length of the entry's data in that form, whatever
\* `size` the entry carries.
C31_NumericFieldsOctal ==
    tarPc = "encoded" =>
        \A i \in 1..Len(tarEntries) :
            /\ \A name \in NumericFields :
                 LET f == headerOf(initTar(tarNow), name)
                     b == fieldBytes(i, f)
                 IN  /\ \A k \in 1..(f.size - 1) : b[k] \in OctalDigits
                     /\ b[f.size] = 0
            /\ fieldBytes(i, headerOf(initTar(tarNow), "size"))
                 = num2oct(Len(tarEntries[i].data), 11) \o <<0>>

\* C32: the entries lie in the buffer in input order: the header block of
\* entry i starts at the sum of (ceil(len_j / 512) + 1) * 512 over the entries
\* before it, its data are the bytes from 512 after that start on, unchanged,
\* and every byte after its data up to the header of the next entry, or the
\* end of the buffer, is zero.
C32_LayoutInOrder ==
    tarPc = "encoded" =>
        \A i \in 1..Len(tarEntries) :
            LET start == expectedStart(tarEntries, i)
                len   == Len(tarEntries[i].data)
                next  == expectedStart(tarEntries, i + 1)
            IN  /\ next <= Len(tarOut)
                /\ SubSeq(tarOut, start + 512 + 1, start + 512 + len) = tarEntries[i].data
                /\ \A k \in (start + 512 + len + 1)..next : tarOut[k] = 0


====
